---------------------------- MODULE Spec2Model ----------------------------
(***************************************************************************)
(* memo-node: a cluster of nodes, each with a store (SQLite tables         *)
(* transcriptions and peers), a live peer table fed by mDNS discovery, a   *)
(* gRPC sync server and a peer manager that pull-syncs from every peer,    *)
(* and the audio pipeline of a node: BLE receiver, decoder task,           *)
(* transcriber (utterance buffer and STT engine), transcription handler.   *)
(***************************************************************************)
EXTENDS Integers, Sequences, FiniteSets, Bags, TLC

(***************************************************************************)
(* Bounds of the model.                                                    *)
(***************************************************************************)
\* transcriptions produced locally in the two-node cluster of Spec
MaxRecords == 2
\* transcriptions produced locally in the three-node cluster of RelaySpec
RelayRecords == 1
\* audio notifications the device sends in PipelineSpec
MaxChunks == 3
\* control notifications the device sends in BleSpec
MaxControls == 3
\* audio tasks alive when a setup of BleSpec can still fail
MaxTasks == 2
\* length in bytes of the audio notifications of DecodeSpec
MaxBundle == 7
\* capacity of the broadcast channel of the client fan-out (100 in main.rs)
FanoutCapacity == 2
\* transcriptions sent on the client fan-out in FanoutSpec
MaxPublished == 4
\* length in characters of the unlisted model names of ModelSpec
MaxName == 5

Nodes == {"A", "B", "C"}
Texts == {"hi", "yo"}
\* the wall-clock seconds at which transcriptions are produced
Times == {1, 2}

\* The discovery graphs: <<n, p>> when the mDNS advertisement of p reaches
\* n.  Spec: A and B see each other.  RelaySpec: B sees A, C sees B and A.
PairLinks == {<<"A", "B">>, <<"B", "A">>}
RelayLinks == {<<"B", "A">>, <<"C", "B">>, <<"C", "A">>}

\* Option<String>::None of Transcription.memo_device_id
None == "None"

\* Control response values from device (audio/ble.rs)
RESP_SPEECH_START == 1
RESP_SPEECH_END == 2

\* the first bytes a control notification can carry: the two above and one
\* that is neither
ControlValues == {RESP_SPEECH_START, RESP_SPEECH_END, 3}

\* the node whose audio pipeline is modelled
Self == "A"

VARIABLES
    store,    \* store[n]: the rows of n's table transcriptions (a bag of rows)
    peers,    \* peers[n]: the rows of n's table peers
    live,     \* live[n]: the keys of PeerManager.peers of n (the live peer table)
    created,  \* history: the rows as their producers first stored them
    \* BleAudioReceiver
    is_recording,        \* Arc<AtomicBool>, shared with decoder and transcriber
    connected,           \* the device is in connected_devices
    scan,                \* try_connect_device: "idle", or "subscribed" before the write
    audio_task,          \* the tasks spawned by subscribe_to_audio that are in their loop
    control_task,        \* the task spawned by subscribe_to_control is in its loop
    last_control_value,  \* of the control task: None or the last value acted upon
    control_log,         \* history: the control notifications and what they did
    audio_open,          \* senders of audio_tx exist
    captured,            \* audio notifications received so far; the next is captured + 1
    audio_rx,            \* channel BLE -> decoder task
    \* decoder task of start_daemon
    decoder,             \* "run", or "done" when its loop has ended
    decoded_rx,          \* channel decoder -> transcriber
    \* WhisperTranscriber::start
    pc,                  \* "start", "select", "lock", "running", "done"
    branch,              \* the select! branch that is calling transcribe_audio
    audio_buffer,
    was_recording,
    engine,              \* the audio of the calls of engine.transcribe in progress
    transcription_rx,    \* channel transcriber -> transcription handler
    \* history
    log,                 \* the utterances handed to the engine, with their results
    written,             \* the texts the handler has taken, in order
    appended,            \* a chunk was appended since the flag last became false
    cycles,              \* recording periods ended in which a chunk was appended
    \* HttpClient::post_transcription
    http,                \* the call in progress: its place, retry_count, and
                         \* history: the responses and the delays so far
    \* the client fan-out of the node Self
    ws_broadcast,        \* ws_broadcast_tx and the receiver of broadcast_loop
    fanout_log,          \* history: the records sent on it and those forwarded
    \* WhisperTranscriber::new
    whisper,             \* the configured model name and what new made of it
    \* PeerManager of the node Self
    sync_loop            \* start_sync_loop and the RwLock of the live peer table

syncvars == <<store, peers, live, created>>

blevars ==
    <<is_recording, connected, scan, audio_task, control_task, last_control_value,
      control_log, audio_open, captured, audio_rx>>

transcribervars == <<pc, branch, audio_buffer, was_recording, engine, transcription_rx>>

history == <<log, written, appended, cycles>>

pipeline == <<blevars, decoder, decoded_rx, transcribervars, history>>

clientvars == <<http, ws_broadcast, fanout_log>>

daemonvars == <<whisper, sync_loop>>

vars == <<syncvars, pipeline, clientvars, daemonvars>>

Rows(n) == BagToSet(store[n])

Max(a, b) == IF a > b THEN a ELSE b

(***************************************************************************)
(* storage.rs                                                              *)
(***************************************************************************)
\* variant of insert_transcription: a plain INSERT into a table without
\* the primary key, nothing is replaced
insert_append(S, t) == S (+) SetToBag({t})

\* INSERT OR REPLACE INTO transcriptions: the rows with the same primary
\* key are deleted, then the new row is inserted.
insert_transcription(S, t) ==
    LET keep == {r \in BagToSet(S) : r.id # t.id}
    IN  [r \in keep |-> S[r]] (+) SetToBag({t})

\* variant of OrderByTimestamp: ORDER BY timestamp DESC
RECURSIVE OrderByTimestampDesc(_)
OrderByTimestampDesc(F) ==
    IF BagToSet(F) = {} THEN {<<>>}
    ELSE LET first == {r \in BagToSet(F) :
                         \A q \in BagToSet(F) : r.timestamp >= q.timestamp}
         IN  UNION {{<<r>> \o s : s \in OrderByTimestampDesc(F (-) SetToBag({r}))} :
                      r \in first}

\* ORDER BY timestamp ASC of the rows F.  The order of rows of equal
\* timestamp is not fixed by the query: every order is a possible result.
RECURSIVE OrderByTimestamp(_)
OrderByTimestamp(F) ==
    IF BagToSet(F) = {} THEN {<<>>}
    ELSE LET first == {r \in BagToSet(F) :
                         \A q \in BagToSet(F) : r.timestamp <= q.timestamp}
         IN  UNION {{<<r>> \o s : s \in OrderByTimestamp(F (-) SetToBag({r}))} :
                      r \in first}

\* variant of get_transcriptions_since: WHERE timestamp >= ?1
get_transcriptions_since_inclusive(S, since) ==
    OrderByTimestamp([r \in {x \in BagToSet(S) : x.timestamp >= since} |-> S[r]])

\* variant of get_transcriptions_since: AND synced = 0, only the rows the
\* node produced itself
get_transcriptions_since_local(S, since) ==
    OrderByTimestamp([r \in {x \in BagToSet(S) : x.timestamp > since /\ ~x.synced}
                         |-> S[r]])

\* SELECT ... FROM transcriptions WHERE timestamp > ?1 ORDER BY timestamp ASC
get_transcriptions_since(S, since) ==
    OrderByTimestamp([r \in {x \in BagToSet(S) : x.timestamp > since} |-> S[r]])

\* SELECT ... FROM peers WHERE node_id = ?1, .optional()
get_peer(P, node_id) == {p \in P : p.node_id = node_id}

\* INSERT OR REPLACE INTO peers
upsert_peer(P, peer) == {p \in P : p.node_id # peer.node_id} \cup {peer}

(***************************************************************************)
(* The client fan-out: ws_broadcast_tx of start_daemon, a                  *)
(* tokio::sync::broadcast channel, and api/websocket.rs                    *)
(***************************************************************************)
\* Transcription -> ServerMessage::Transcription in broadcast_loop: synced
\* is not part of the message.
ToServerMessage(t) ==
    [id |-> t.id, timestamp |-> t.timestamp, text |-> t.text,
     source_node |-> t.source_node, memo_device_id |-> t.memo_device_id]

\* broadcast::Sender::send of t on the channel ch, which holds at most
\* FanoutCapacity values: it never waits.  Without a receiver the value is
\* dropped (send returns Err, which every caller ignores); with a full
\* channel the oldest value is overwritten and the receiver has lagged.
broadcast_send(ch, t) ==
    IF ch.loop # "run" THEN ch
    ELSE IF Len(ch.rx) < FanoutCapacity THEN [ch EXCEPT !.rx = Append(@, t)]
    ELSE [ch EXCEPT !.rx = Append(Tail(@), t), !.lagged = TRUE]

RECURSIVE broadcast_send_all(_, _)
broadcast_send_all(ch, sent) ==
    IF sent = <<>> THEN ch
    ELSE broadcast_send_all(broadcast_send(ch, Head(sent)), Tail(sent))

\* the indexes in fanout_log.published of the values overwritten when sent
\* is sent on ch after published: the channel holds the newest
\* FanoutCapacity values sent to a receiver in its loop
RECURSIVE Overwritten(_, _, _)
Overwritten(ch, published, sent) ==
    IF sent = <<>> THEN {}
    ELSE (IF ch.loop = "run" /\ Len(ch.rx) = FanoutCapacity
          THEN {Len(published) - FanoutCapacity + 1} ELSE {})
         \cup Overwritten(broadcast_send(ch, Head(sent)),
                          Append(published, Head(sent)), Tail(sent))

\* Node n sends the records sent on its ws_broadcast_tx, in order.  The
\* fan-out of Self is modelled; the history is kept from the moment
\* broadcast_loop has subscribed.
Publish(n, sent) ==
    IF n = Self /\ ws_broadcast.loop # "off"
    THEN /\ ws_broadcast' = broadcast_send_all(ws_broadcast, sent)
         /\ fanout_log' =
                [fanout_log EXCEPT
                    !.published = @ \o sent,
                    !.overwritten =
                        @ \cup Overwritten(ws_broadcast, fanout_log.published, sent)]
    ELSE UNCHANGED <<ws_broadcast, fanout_log>>

\* while let Ok(transcription) = rx.recv().await of broadcast_loop, on
\* Err(RecvError::Lagged): the loop ends, rx is dropped with what it holds.
broadcast_loop_lagged(ch) == [ch EXCEPT !.loop = "done", !.rx = <<>>, !.lagged = FALSE]

\* One call of rx.recv() in broadcast_loop that returns: Ok(transcription)
\* is converted and handed to broadcast_to_clients, Err ends the loop.
broadcast_loop_recv ==
    /\ ws_broadcast.loop = "run"
    /\ ws_broadcast.lagged \/ ws_broadcast.rx # <<>>
    /\ IF ws_broadcast.lagged
       THEN /\ ws_broadcast' = broadcast_loop_lagged(ws_broadcast)
            /\ UNCHANGED fanout_log
       ELSE /\ ws_broadcast' = [ws_broadcast EXCEPT !.rx = Tail(@)]
            /\ fanout_log' =
                   [fanout_log EXCEPT
                       !.forwarded = Append(@, ToServerMessage(Head(ws_broadcast.rx)))]
    /\ UNCHANGED <<daemonvars, http, syncvars, pipeline>>

\* let mut rx = self.broadcast_tx.subscribe() of broadcast_loop, once serve
\* has bound its listener: from now on the channel keeps what is sent.
broadcast_loop_subscribe ==
    /\ ws_broadcast.loop = "off"
    /\ ws_broadcast' = [ws_broadcast EXCEPT !.loop = "run"]
    /\ UNCHANGED <<daemonvars, http, fanout_log, syncvars, pipeline>>

(***************************************************************************)
(* sync/peer.rs                                                            *)
(***************************************************************************)
\* variant of ToProto: the timestamp is left at the default of the message
ToProtoUnstamped(t) ==
    [id |-> t.id, timestamp |-> 0, text |-> t.text,
     source_node |-> t.source_node,
     memo_device_id |-> IF t.memo_device_id = None THEN "" ELSE t.memo_device_id]

\* Transcription -> ProtoTranscription (get_transcriptions_since of the
\* server): synced is not on the wire, None becomes the empty string.
ToProto(t) ==
    [id |-> t.id, timestamp |-> t.timestamp, text |-> t.text,
     source_node |-> t.source_node,
     memo_device_id |-> IF t.memo_device_id = None THEN "" ELSE t.memo_device_id]

\* variant of FromProto: two String fields mixed up
FromProtoMixed(m) ==
    [id |-> m.id, timestamp |-> m.timestamp, text |-> m.text,
     source_node |-> m.text,
     memo_device_id |-> IF m.memo_device_id = "" THEN None ELSE m.memo_device_id,
     synced |-> TRUE]

\* variant of FromProto: synced left at its default
FromProtoUnsynced(m) ==
    [id |-> m.id, timestamp |-> m.timestamp, text |-> m.text,
     source_node |-> m.source_node,
     memo_device_id |-> IF m.memo_device_id = "" THEN None ELSE m.memo_device_id,
     synced |-> FALSE]

\* ProtoTranscription -> Transcription on the receiving side
\* (sync_with_peer and push_transcriptions): synced: true.
FromProto(m) ==
    [id |-> m.id, timestamp |-> m.timestamp, text |-> m.text,
     source_node |-> m.source_node,
     memo_device_id |-> IF m.memo_device_id = "" THEN None ELSE m.memo_device_id,
     synced |-> TRUE]

\* get_peer(node_id)?.map(|p| p.last_sync_timestamp).unwrap_or(0) on the
\* peers table P
LastSyncIn(P, node_id) ==
    LET got == get_peer(P, node_id)
    IN  IF got = {} THEN 0 ELSE (CHOOSE r \in got : TRUE).last_sync_timestamp

\* let last_sync = ... : the cursor node n holds for peer p
LastSync(n, p) == LastSyncIn(peers[n], p)

\* variant of InitialLatest: let mut latest_timestamp = 0;
InitialLatestZero(last_sync) == 0

\* let mut latest_timestamp = last_sync;
InitialLatest(last_sync) == last_sync

\* the while loop of sync_with_peer over the messages msgs, as far as the
\* store goes: insert_transcription of each message, in order
RECURSIVE ReceiveAll(_, _)
ReceiveAll(S, msgs) ==
    IF msgs = <<>> THEN S
    ELSE ReceiveAll(insert_transcription(S, FromProto(Head(msgs))), Tail(msgs))

\* the same loop, as far as latest_timestamp goes
RECURSIVE LatestTimestamp(_, _)
LatestTimestamp(latest, msgs) ==
    IF msgs = <<>> THEN latest
    ELSE LatestTimestamp(Max(latest, Head(msgs).timestamp), Tail(msgs))

\* What the server p streams for SinceRequest{since_timestamp}: its rows
\* newer than since_timestamp, converted for the wire.
Served(p, since_timestamp) ==
    {[i \in 1..Len(rows) |-> ToProto(rows[i])] :
        rows \in get_transcriptions_since(store[p], since_timestamp)}

\* variant of PeersAfterSync: upsert_peer inside the loop, the cursor
\* follows every stored message whether or not the round ends well
PeersAfterSyncAlways(P, node_id, last_sync, msgs, ok) ==
    IF ok \/ msgs # <<>>
    THEN upsert_peer(P, [node_id |-> node_id,
                        last_sync_timestamp |->
                            LatestTimestamp(InitialLatest(last_sync), msgs)])
    ELSE P

\* The peers table of a node after sync_with_peer has received msgs: the
\* cursor is written once, after the loop, and only when no ? has returned.
PeersAfterSync(P, node_id, last_sync, msgs, ok) ==
    IF ok
    THEN upsert_peer(P, [node_id |-> node_id,
                        last_sync_timestamp |->
                            LatestTimestamp(InitialLatest(last_sync), msgs)])
    ELSE P

\* PeerManager of the node Self between two ticks of start_sync_loop, with
\* an empty table.  at: "wait" in ticker.tick(), "tick" in sync_with_peers
\* with the read lock of peers held; table: the PeerConnection (its
\* address) under each node id of live[Self]; adding: the peer of the call
\* of add_peer that awaits the write lock; todo: the entries the for loop
\* of the tick has not visited.  History: attempts, the calls of
\* sync_with_peer of the current or last tick, and granted, the peer
\* inserted since the last tick by a call of add_peer that had waited for
\* the lock.
NoTick ==
    [at |-> "wait", table |-> [q \in {} |-> ""], adding |-> {}, todo |-> {},
     attempts |-> <<>>, granted |-> {}]

\* variant of ReadLocked: sync_with_peers clones the table and drops the guard
ReadLockedNever(n) == FALSE

\* a task of node n holds the read lock of PeerManager.peers
ReadLocked(n) == n = Self /\ sync_loop.at = "tick"

\* HashMap::insert(node_id, PeerConnection): one entry for each key, the old
\* value replaced
table_insert(table, peer) ==
    [q \in DOMAIN table \cup {peer.node_id} |->
        IF q = peer.node_id THEN peer.address ELSE table[q]]

\* PeerManager::add_peer, called by the discovered-peer handler for every
\* DiscoveredPeer, when self.peers.write().await is granted at once: the
\* connection is inserted under the peer's node id, whatever the id is.
add_peer(n, peer) ==
    /\ ~ReadLocked(n)
    /\ n = Self => sync_loop.adding = {}
    /\ live' = [live EXCEPT ![n] = @ \cup {peer.node_id}]
    /\ sync_loop' = IF n = Self
                    THEN [sync_loop EXCEPT !.table = table_insert(@, peer)]
                    ELSE sync_loop
    /\ UNCHANGED <<whisper, clientvars, store, peers, created, pipeline>>

\* add_peer of Self is called while a tick holds the read lock: the call
\* (and the handler, which awaits it) waits for the write lock
add_peer_wait(peer) ==
    /\ ReadLocked(Self)
    /\ sync_loop.adding = {}
    /\ sync_loop' = [sync_loop EXCEPT !.adding = {peer}]
    /\ UNCHANGED <<whisper, clientvars, syncvars, pipeline>>

\* the write lock is granted to the waiting call of add_peer
add_peer_granted ==
    /\ ~ReadLocked(Self)
    /\ \E peer \in sync_loop.adding :
          /\ live' = [live EXCEPT ![Self] = @ \cup {peer.node_id}]
          /\ sync_loop' = [sync_loop EXCEPT !.table = table_insert(@, peer),
                                            !.adding = {}, !.granted = {peer}]
    /\ UNCHANGED <<whisper, clientvars, store, peers, created, pipeline>>

\* the store of n after its sync_with_peer has received msgs
RoundStore(n, msgs) == ReceiveAll(store[n], msgs)

\* the peers table of n after its sync_with_peer from p has received msgs
\* and returned Ok (ok) or Err
RoundPeers(n, p, msgs, ok) == PeersAfterSync(peers[n], p, LastSync(n, p), msgs, ok)

\* sync_with_peer returning Ok(()): the whole stream is received and
\* stored, then the cursor is written.
sync_with_peer_ok(n, p) ==
    /\ p \in live[n]
    /\ \E msgs \in Served(p, LastSync(n, p)) :
          /\ store' = [store EXCEPT ![n] = RoundStore(n, msgs)]
          /\ peers' = [peers EXCEPT ![n] = RoundPeers(n, p, msgs, TRUE)]
    /\ UNCHANGED <<daemonvars, clientvars, live, created, pipeline>>

\* sync_with_peer returning Err after k messages were stored: connect or
\* the request fails (k = 0), stream.message() or insert_transcription
\* fails in the loop, or upsert_peer fails after it.
sync_with_peer_err(n, p) ==
    /\ p \in live[n]
    /\ \E msgs \in Served(p, LastSync(n, p)) :
       \E k \in 0..Len(msgs) :
          /\ store' = [store EXCEPT ![n] = RoundStore(n, SubSeq(msgs, 1, k))]
          /\ peers' = [peers EXCEPT ![n] = RoundPeers(n, p, SubSeq(msgs, 1, k), FALSE)]
    /\ UNCHANGED <<daemonvars, clientvars, live, created, pipeline>>

\* ticker.tick() returns and sync_with_peers takes the read lock (a call of
\* add_peer that is already waiting for the write lock goes first: the
\* lock is fair); the for loop is about to visit every entry.
sync_tick_begin ==
    /\ sync_loop.at = "wait"
    /\ sync_loop.adding = {}
    /\ sync_loop' = [sync_loop EXCEPT !.at = "tick", !.todo = DOMAIN sync_loop.table,
                                      !.attempts = <<>>]
    /\ UNCHANGED <<whisper, clientvars, syncvars, pipeline>>

\* variant of TodoAfter: an Err of sync_with_peer ends the for loop
TodoAfterAbort(todo, p, ok) == IF ok THEN todo \ {p} ELSE {}

\* the entries left to the for loop after sync_with_peer for p has
\* returned: if let Err(e) = .. { warn!(..) }, and the loop goes on
TodoAfter(todo, p, ok) == todo \ {p}

\* One turn of the for loop of sync_with_peers, for the entry of p (the
\* order of HashMap::values is not fixed): sync_with_peer runs with the
\* connection of the table and returns Ok (ok) or Err after k messages.
sync_tick_peer(p) ==
    /\ sync_loop.at = "tick"
    /\ p \in sync_loop.todo
    /\ \E msgs \in Served(p, LastSync(Self, p)) :
       \E k \in 0..Len(msgs), ok \in BOOLEAN :
          /\ ok => k = Len(msgs)
          /\ store' = [store EXCEPT ![Self] = RoundStore(Self, SubSeq(msgs, 1, k))]
          /\ peers' = [peers EXCEPT ![Self] = RoundPeers(Self, p, SubSeq(msgs, 1, k), ok)]
          /\ sync_loop' =
                [sync_loop EXCEPT
                    !.todo = TodoAfter(@, p, ok),
                    !.attempts = Append(@, [peer |-> p, address |-> sync_loop.table[p],
                                            ok |-> ok])]
    /\ UNCHANGED <<whisper, clientvars, live, created, pipeline>>

\* the for loop has visited every entry: sync_with_peers returns and drops
\* the read guard, start_sync_loop awaits the next tick
sync_tick_end ==
    /\ sync_loop.at = "tick"
    /\ sync_loop.todo = {}
    /\ sync_loop' = [sync_loop EXCEPT !.at = "wait", !.granted = {}]
    /\ UNCHANGED <<whisper, clientvars, syncvars, pipeline>>

\* the since_timestamp values a SinceRequest can carry
Sinces == {0} \cup Times

\* PeerSyncServer::push_transcriptions on the table S for the client stream
\* msgs.  The loop handles k messages: each is converted (synced: true),
\* inserted, sent on broadcast_tx and counted.  Then the stream has ended
\* (ok, k = Len(msgs)) and the response is PushResponse{received}, or
\* stream.message() or the next insert_transcription has failed and the
\* call ends with Status::internal.
\* The table after the call:
PushStore(S, msgs, k) == ReceiveAll(S, SubSeq(msgs, 1, k))

\* the records sent on broadcast_tx during the call
PushSent(msgs, k) == [i \in 1..k |-> FromProto(msgs[i])]

\* variant of PushReturn: received is incremented before the insert, so
\* the message whose insert fails is counted and the count is returned
PushReturnCounted(k, ok) == [received |-> IF ok THEN k ELSE k + 1]

\* what the call returns
PushReturn(k, ok) ==
    IF ok THEN [received |-> k] ELSE [status |-> "internal"]

\* the client streams of push_transcriptions that carry one message: a
\* row of the store of the calling peer p
OneRowStreams(p) == {<<ToProto(r)>> : r \in Rows(p)}

\* push_transcriptions on server n, called by a peer p with a stream of
\* one message; the call handles k messages and returns.  What it sends on
\* broadcast_tx the bridge task of start_daemon sends on ws_broadcast_tx,
\* in the same order (a call that fails
\* after the last message leaves the store as one that returns a response
\* does, and a call with a longer stream changes the store as that many
\* calls in a row do).
push_transcriptions(n) ==
    /\ \E p \in Nodes \ {n} :
       \E msgs \in OneRowStreams(p) :
       \E k \in 0..Len(msgs) :
          /\ store' = [store EXCEPT ![n] = PushStore(@, msgs, k)]
          /\ Publish(n, PushSent(msgs, k))
    /\ UNCHANGED <<daemonvars, http, peers, live, created, pipeline>>

(***************************************************************************)
(* sync/discovery.rs                                                       *)
(***************************************************************************)
\* a TXT property the advertisement does not carry, and Option::None
Absent == "absent"
NoPeer == [node_id |-> Absent]

\* the values of the TXT property grpc_port: a port, a number that is not a
\* u16, a text that is not a number
PortTexts == {"50051", "70000", "grpc"}

\* s.parse::<u16>().ok(), the Option as a set of at most one number
parse_u16(s) == IF s = "50051" THEN {50051} ELSE {}

\* The ServiceInfo records mDNS can resolve for the advertisement of node p:
\* its TXT properties with or without node_id and grpc_port, and the
\* addresses resolved so far.
ServiceInfos(p) ==
    {[node_id |-> id, grpc_port |-> port, addresses |-> addresses] :
        id \in {p, Absent}, port \in PortTexts \cup {Absent},
        addresses \in {<<>>, <<p>>}}

\* the events the browse receiver of a node can deliver for the
\* advertisement of p: found but not resolved, resolved, removed
ServiceEvents(p) ==
    {[type |-> "ServiceFound", fullname |-> p],
     [type |-> "ServiceRemoved", fullname |-> p]}
    \cup {[type |-> "ServiceResolved", info |-> info] : info \in ServiceInfos(p)}

\* variant of parse_service_info: without "Don't discover ourselves"
parse_service_info_any(info, own_node_id) ==
    IF info.node_id = Absent THEN NoPeer
    ELSE IF info.grpc_port = Absent \/ parse_u16(info.grpc_port) = {} THEN NoPeer
    ELSE IF info.addresses = <<>> THEN NoPeer
    ELSE [node_id |-> info.node_id, address |-> Head(info.addresses),
          grpc_port |-> CHOOSE port \in parse_u16(info.grpc_port) : TRUE]

\* Discovery::parse_service_info: None without node_id, for the node's own
\* id, without a grpc_port that parses as u16, without an address.
parse_service_info(info, own_node_id) ==
    IF info.node_id = Absent THEN NoPeer
    ELSE IF info.node_id = own_node_id THEN NoPeer
    ELSE IF info.grpc_port = Absent \/ parse_u16(info.grpc_port) = {} THEN NoPeer
    ELSE IF info.addresses = <<>> THEN NoPeer
    ELSE [node_id |-> info.node_id, address |-> Head(info.addresses),
          grpc_port |-> CHOOSE port \in parse_u16(info.grpc_port) : TRUE]

\* what the task of browse_services sends on peer_tx for event
Emitted(event, own_node_id) ==
    IF event.type = "ServiceResolved"
    THEN parse_service_info(event.info, own_node_id)
    ELSE NoPeer

\* One turn of the loop of browse_services on node n for an event that
\* emits a peer, and of the discovery handler of start_daemon for it:
\* add_peer of the emitted peer.
browse_event(n, event) ==
    LET peer == Emitted(event, n)
    IN  peer # NoPeer /\ add_peer(n, peer)

\* One turn of the loop of browse_services on node n for an event about the
\* advertisement of p that emits nothing: the loop goes on.
browse_event_dropped(n, p) ==
    /\ {event \in ServiceEvents(p) : Emitted(event, n) = NoPeer} # {}
    /\ UNCHANGED vars

\* the advertisements mDNS delivers to node n along the graph L: those of
\* the nodes it is linked to, and its own
Adverts(n, L) == {n} \cup {l[2] : l \in {x \in L : x[1] = n}}

(***************************************************************************)
(* main.rs                                                                 *)
(***************************************************************************)
\* the fields the transcription handler of start_daemon gives a new record
NewTranscription(id, timestamp, text, node_id) ==
    [id |-> id, timestamp |-> timestamp, text |-> text, source_node |-> node_id,
     memo_device_id |-> None, synced |-> FALSE]

\* The transcription handler of start_daemon: a text arrives from the
\* transcriber, the record gets a fresh uuid and the wall clock of n (which
\* does not run backwards on n, and is not tied to the clocks of the other
\* nodes), is inserted and then sent on ws_broadcast_tx.
LocalTranscription(n) ==
    /\ \E text \in Texts, timestamp \in Times :
          /\ \A c \in created : c.source_node = n => c.timestamp <= timestamp
          /\ LET t == NewTranscription(Cardinality(created) + 1, timestamp, text, n)
             IN  /\ store' = [store EXCEPT ![n] = insert_transcription(@, t)]
                 /\ created' = created \cup {t}
                 /\ Publish(n, <<t>>)
    /\ UNCHANGED <<daemonvars, http, peers, live, pipeline>>

\* insert_transcription returns Err in the handler: the record is dropped.
LocalTranscriptionErr(n) ==
    /\ UNCHANGED vars

(***************************************************************************)
(* api/http.rs                                                             *)
(***************************************************************************)
MAX_RETRIES == 3

\* what client.post(..).send().await can return: Ok(response) with one of
\* these status codes, or Err (no connection, or the 30 s timeout)
Statuses == {200, 404, 500}
TransportErr == [ok |-> FALSE, status |-> 0]
Outcomes == {[ok |-> TRUE, status |-> status] : status \in Statuses} \cup {TransportErr}

\* StatusCode::is_success
is_success(status) == status >= 200 /\ status < 300

\* json!({id, timestamp, text, source_node, memo_device_id}): synced is
\* not sent, None is null
Payload(t) ==
    [id |-> t.id, timestamp |-> t.timestamp, text |-> t.text,
     source_node |-> t.source_node,
     memo_device_id |-> IF t.memo_device_id = None THEN "null" ELSE t.memo_device_id]

\* no call of post_transcription in progress
NoCall == [at |-> "idle", retry_count |-> 0, posts |-> <<>>, delays |-> <<>>]

\* variant of backoff_delay: the delay grows by one second per retry
backoff_delay_linear(retry_count) == retry_count

\* let delay = Duration::from_secs(2_u64.pow(retry_count - 1)), in seconds
backoff_delay(retry_count) == 2 ^ (retry_count - 1)

\* The handler of start_daemon, after a record was stored and sent on
\* ws_broadcast_tx, spawns post_transcription for it when an endpoint is
\* configured; one call at a time is followed.  posts and delays are
\* history: what send() returned and what the call has slept, in order.
post_transcription_call(t) ==
    /\ http.at \in {"idle", "ok", "err"}
    /\ http' = [at |-> "send", retry_count |-> 0, payload |-> Payload(t),
                posts |-> <<>>, delays |-> <<>>]
    /\ UNCHANGED <<daemonvars, ws_broadcast, fanout_log, syncvars, pipeline>>

\* send().await returns outcome: return Ok(()) on a success status;
\* otherwise, while retry_count < MAX_RETRIES, count the retry and sleep,
\* else return Err.
post_response(outcome) ==
    /\ http.at = "send"
    /\ http' =
          IF outcome.ok /\ is_success(outcome.status)
          THEN [http EXCEPT !.at = "ok", !.posts = Append(@, outcome)]
          ELSE IF http.retry_count < MAX_RETRIES
          THEN [http EXCEPT !.at = "sleep", !.posts = Append(@, outcome),
                            !.retry_count = @ + 1,
                            !.delays = Append(@, backoff_delay(http.retry_count + 1))]
          ELSE [http EXCEPT !.at = "err", !.posts = Append(@, outcome)]
    /\ UNCHANGED <<daemonvars, ws_broadcast, fanout_log, syncvars, pipeline>>

\* sleep(delay).await returns; continue
post_sleep_end ==
    /\ http.at = "sleep"
    /\ http' = [http EXCEPT !.at = "send"]
    /\ UNCHANGED <<daemonvars, ws_broadcast, fanout_log, syncvars, pipeline>>

(***************************************************************************)
(* Channels (tokio::sync::mpsc)                                            *)
(***************************************************************************)
\* variant of recv: the newest message is taken first
recv_newest(ch) ==
    [msg |-> ch[Len(ch)], rest |-> SubSeq(ch, 1, Len(ch) - 1)]

\* UnboundedReceiver::recv on a channel that holds messages: the oldest
\* message, and the channel without it
recv(ch) == [msg |-> Head(ch), rest |-> Tail(ch)]

(***************************************************************************)
(* audio/ble.rs                                                            *)
(***************************************************************************)
\* Option<u8>::None of last_control_value
NoControl == 0

\* is_recording.store(v, Ordering::Release).  History: a recording period
\* ends when the flag goes from true to false; it counts when a chunk was
\* appended to the utterance buffer during it.
StoreFlag(v) ==
    /\ is_recording' = v
    /\ IF is_recording /\ ~v
       THEN /\ cycles' = cycles + (IF appended THEN 1 ELSE 0)
            /\ appended' = FALSE
       ELSE UNCHANGED <<cycles, appended>>

\* try_connect_device for the device, not yet in connected_devices, up to
\* the subscriptions: subscribe_to_audio spawns the task that forwards the
\* audio notifications and, when the device has the control TX
\* characteristic, subscribe_to_control spawns the control task.
try_connect_subscribe ==
    /\ audio_open
    /\ scan = "idle"
    /\ ~connected
    /\ scan' = "subscribed"
    /\ audio_task' = audio_task + 1
    /\ \E control_tx \in BOOLEAN :
          /\ control_task' = control_tx
          /\ last_control_value' = NoControl
    /\ UNCHANGED <<daemonvars, clientvars, is_recording, connected, control_log, audio_open, captured,
                   audio_rx, decoder, decoded_rx, transcribervars, history, syncvars>>

\* variant of InsertedAfter: the name is inserted when the call returns,
\* Ok or Err
InsertedAlways(was_connected, failed) == TRUE

\* connected_devices after a call of try_connect_device for a device that
\* was not in it: the insert is the last statement before Ok(()), and every
\* failed step returns before it with ?.
InsertedAfter(was_connected, failed) == IF failed THEN was_connected ELSE TRUE

\* the steps of try_connect_device that can return Err
SetupSteps ==
    {"properties", "is_connected", "connect", "discover_services", "audio_char",
     "subscribe_to_audio", "subscribe_to_control"}

\* try_connect_device for the device, not yet in connected_devices, returns
\* Err at step (the scan loop logs it and goes on).  When the step is
\* subscribe_to_control, subscribe_to_audio has already spawned its task.
try_connect_err(step) ==
    /\ audio_open
    /\ scan = "idle"
    /\ ~connected
    /\ audio_task' = IF step = "subscribe_to_control" THEN audio_task + 1 ELSE audio_task
    /\ connected' = InsertedAfter(connected, TRUE)
    /\ UNCHANGED <<daemonvars, clientvars, is_recording, scan, control_task, last_control_value,
                   control_log, audio_open, captured, audio_rx, decoder, decoded_rx,
                   transcribervars, history, syncvars>>

\* the rest of try_connect_device: START_RECORDING is written when the
\* device has the control RX characteristic and, when the write succeeded
\* (sent), the flag is set; the device joins connected_devices.
try_connect_start ==
    /\ audio_open
    /\ scan = "subscribed"
    /\ scan' = "idle"
    /\ connected' = InsertedAfter(connected, FALSE)
    /\ \E sent \in BOOLEAN :
          IF sent THEN StoreFlag(TRUE) ELSE UNCHANGED <<is_recording, cycles, appended>>
    /\ UNCHANGED <<daemonvars, clientvars, audio_task, control_task, last_control_value, control_log,
                   audio_open, captured, audio_rx, decoder, decoded_rx,
                   transcribervars, log, written, syncvars>>

\* try_connect_device for the device when its name is in connected_devices:
\* already connected and set up, skip
try_connect_skip ==
    /\ audio_open
    /\ scan = "idle"
    /\ connected
    /\ UNCHANGED vars

\* try_connect_device, called by the scan loop for the device every 2 s,
\* when no step of it returns Err
try_connect_device ==
    \/ try_connect_subscribe
    \/ try_connect_start
    \/ try_connect_skip

\* The device sends one audio notification: every task of
\* subscribe_to_audio has its own notification stream of the peripheral and
\* sends the value on audio_tx.
audio_notification ==
    /\ audio_open
    /\ audio_task > 0
    /\ captured < MaxChunks
    /\ captured' = captured + 1
    /\ audio_rx' = audio_rx \o [i \in 1..audio_task |-> captured + 1]
    /\ UNCHANGED <<daemonvars, clientvars, is_recording, connected, scan, audio_task, control_task,
                   last_control_value, control_log, audio_open, decoder,
                   decoded_rx, transcribervars, history, syncvars>>

\* the notification streams of the peripheral end: every audio task logs
\* and exits
audio_stream_end ==
    /\ audio_task > 0
    /\ audio_task' = 0
    /\ UNCHANGED <<daemonvars, clientvars, is_recording, connected, scan, control_task, last_control_value,
                   control_log, audio_open, captured, audio_rx, decoder, decoded_rx,
                   transcribervars, history, syncvars>>

\* the notification stream of the control task ends: the task logs and exits
control_stream_end ==
    /\ control_task
    /\ control_task' = FALSE
    /\ UNCHANGED <<daemonvars, clientvars, is_recording, connected, scan, audio_task, last_control_value,
                   control_log, audio_open, captured, audio_rx, decoder, decoded_rx,
                   transcribervars, history, syncvars>>

\* variant of Debounced: no value is skipped
DebouncedNever(last, control_value) == FALSE

\* if last_control_value == Some(control_value) { continue; }
Debounced(last, control_value) == last = control_value

\* match control_value: the flag after the arm for control_value has run
FlagAfter(flag, control_value) ==
    IF control_value = RESP_SPEECH_START THEN TRUE
    ELSE IF control_value = RESP_SPEECH_END THEN FALSE
    ELSE flag

\* the body of the loop of the control task for a notification whose first
\* byte is control_value: the debounce state and the flag after it, and
\* whether the value was acted upon
on_control(last, flag, control_value) ==
    IF Debounced(last, control_value)
    THEN [acted |-> FALSE, last |-> last, flag |-> flag]
    ELSE [acted |-> TRUE, last |-> control_value, flag |-> FlagAfter(flag, control_value)]

\* the task of subscribe_to_control receives a notification whose first
\* byte is control_value
control_notification(control_value) ==
    /\ control_task
    /\ LET after == on_control(last_control_value, is_recording, control_value)
       IN  /\ last_control_value' = after.last
           /\ StoreFlag(after.flag)
    /\ UNCHANGED <<daemonvars, clientvars, connected, scan, audio_task, control_task, audio_open, captured,
                   audio_rx, decoder, decoded_rx, transcribervars, log, written,
                   syncvars>>

\* history of control_notification(control_value): what the notification
\* found and what it left
logged_control(control_value) ==
    control_log' = Append(control_log,
                          [value |-> control_value,
                           acted |-> ~Debounced(last_control_value, control_value),
                           before |-> [last |-> last_control_value, flag |-> is_recording],
                           after |-> [last |-> last_control_value', flag |-> is_recording']])

\* BleAudioReceiver::start returns Err (adapter.peripherals() fails) and
\* the audio notification stream has ended: every sender of audio_tx is
\* dropped.
ble_stop ==
    /\ audio_open
    /\ scan = "idle"
    /\ audio_open' = FALSE
    /\ audio_task' = 0
    /\ UNCHANGED <<daemonvars, clientvars, is_recording, connected, scan, control_task, last_control_value,
                   control_log, captured, audio_rx, decoder, decoded_rx,
                   transcribervars, history, syncvars>>

(***************************************************************************)
(* audio/decoder.rs                                                        *)
(***************************************************************************)
\* the byte values of the audio notifications: 0, two small numbers, and a
\* frame count above the cap
Bytes == {0, 1, 2, 11}

\* the byte sequences of length n
BytesOfLength(n) == [1..n -> Bytes]

\* OpusDecoder::new(sample_rate, channels): Err for a rate other than
\* 16 kHz, else the decoder with its frame size (20 ms frames)
OpusDecoder_new(sample_rate) ==
    IF sample_rate # 16000
    THEN [status |-> "err", frame_size_samples |-> 0]
    ELSE [status |-> "ok", frame_size_samples |-> (sample_rate * 20) \div 1000]

\* Stand-in for the opus codec, self.decoder.decode(Some(frame_data), &mut
\* pcm, false): it fails on a payload that begins with 0, decodes no sample
\* from one that begins with 11, and otherwise gives one sample for each
\* byte, which depends on the whole payload.
opus_decode(frame_data) ==
    IF frame_data[1] = 0 THEN [status |-> "err", samples |-> <<>>]
    ELSE IF frame_data[1] = 11 THEN [status |-> "ok", samples |-> <<>>]
    ELSE [status |-> "ok",
          samples |-> [i \in 1..Len(frame_data) |->
                          100 * Len(frame_data) + 10 * i + frame_data[i]]]

\* variant of match_frame: the samples of a frame are put in front
match_frame_reversed(all_samples, result) ==
    [failed |-> FALSE,
     all_samples |-> IF result.status = "ok" THEN result.samples \o all_samples
                     ELSE all_samples]

\* variant of match_frame: a frame that fails to decode fails the bundle
match_frame_failing(all_samples, result) ==
    [failed |-> result.status = "err",
     all_samples |-> IF result.status = "ok" THEN all_samples \o result.samples
                     ELSE all_samples]

\* match self.decoder.decode(..): Ok(samples_decoded) extends all_samples
\* by the decoded samples, Err is logged; neither arm leaves the function
match_frame(all_samples, result) ==
    [failed |-> FALSE,
     all_samples |-> IF result.status = "ok" THEN all_samples \o result.samples
                     ELSE all_samples]

\* variant of overrun: the samples decoded so far are dropped
overrun_dropped(all_samples) == <<>>

\* if offset + frame_size > bundle_data.len() { break; }: what the loop
\* leaves in all_samples
overrun(all_samples) == all_samples

\* for frame_idx in 0..num_frames, with frames_left turns to go; offset
\* counts from 0 as in the code
RECURSIVE decode_frames(_, _, _, _)
decode_frames(bundle_data, offset, frames_left, all_samples) ==
    IF frames_left = 0 \/ offset >= Len(bundle_data)
    THEN [status |-> "ok", samples |-> all_samples]
    ELSE LET frame_size == bundle_data[offset + 1]
             start == offset + 1
         IN  IF frame_size = 0
             THEN decode_frames(bundle_data, start, frames_left - 1, all_samples)
             ELSE IF start + frame_size > Len(bundle_data)
             THEN [status |-> "ok", samples |-> overrun(all_samples)]
             ELSE LET frame_data == SubSeq(bundle_data, start + 1, start + frame_size)
                      after == match_frame(all_samples, opus_decode(frame_data))
                  IN  IF after.failed
                      THEN [status |-> "err", samples |-> <<>>]
                      ELSE decode_frames(bundle_data, start + frame_size,
                                         frames_left - 1, after.all_samples)

\* OpusDecoder::decode
decode(encoded) ==
    IF encoded = <<>> \/ Len(encoded) < 2
    THEN [status |-> "ok", samples |-> <<>>]
    ELSE LET bundle_data == Tail(encoded)
             num_frames == bundle_data[1]
         IN  IF num_frames = 0 \/ num_frames > 10
             THEN [status |-> "ok", samples |-> <<>>]
             ELSE decode_frames(bundle_data, 1, num_frames, <<>>)

(***************************************************************************)
(* main.rs: the decoder task                                               *)
(***************************************************************************)
\* what decoder.decode gives for a packet: PCM samples, no samples, or Err
DecodeOutcomes == {"pcm", "empty", "err"}

\* one turn of while let Some(encoded_audio) = audio_rx.recv().await
decoder_recv ==
    /\ decoder = "run"
    /\ audio_rx # <<>>
    /\ audio_rx' = recv(audio_rx).rest
    /\ IF ~is_recording
       THEN UNCHANGED decoded_rx
       ELSE \E outcome \in DecodeOutcomes :
               IF outcome = "pcm"
               THEN decoded_rx' = Append(decoded_rx, recv(audio_rx).msg)
               ELSE UNCHANGED decoded_rx
    /\ UNCHANGED <<daemonvars, clientvars, is_recording, connected, scan, audio_task, control_task,
                   last_control_value, control_log, audio_open, captured,
                   decoder, transcribervars, history, syncvars>>

\* one turn of the same loop for a notification given by its bytes
decoder_decode ==
    /\ decoder = "run"
    /\ audio_rx # <<>>
    /\ audio_rx' = recv(audio_rx).rest
    /\ IF ~is_recording
       THEN UNCHANGED decoded_rx
       ELSE LET result == decode(recv(audio_rx).msg)
            IN  IF result.status = "ok" /\ result.samples # <<>>
                THEN decoded_rx' = Append(decoded_rx, result.samples)
                ELSE UNCHANGED decoded_rx
    /\ UNCHANGED <<daemonvars, clientvars, is_recording, connected, scan, audio_task, control_task,
                   last_control_value, control_log, audio_open, captured,
                   decoder, transcribervars, history, syncvars>>

\* audio_rx.recv() gives None: the task ends and drops decoded_tx
decoder_exit ==
    /\ decoder = "run"
    /\ audio_rx = <<>>
    /\ ~audio_open
    /\ decoder' = "done"
    /\ UNCHANGED <<daemonvars, clientvars, blevars, decoded_rx, transcribervars, history, syncvars>>

(***************************************************************************)
(* transcribe.rs                                                           *)
(***************************************************************************)
\* the texts engine.transcribe can return, as sequences of characters
STTTexts == {<<" ">>, <<"h", "i">>, <<" ", "y", "o", " ">>}

\* Result<String> of transcribe_audio
STTResults ==
    {[status |-> "err", text |-> <<>>]} \cup [status : {"ok"}, text : STTTexts]

RECURSIVE trim_start(_)
trim_start(text) ==
    IF text # <<>> /\ Head(text) = " " THEN trim_start(Tail(text)) ELSE text

RECURSIVE trim_end(_)
trim_end(text) ==
    IF text # <<>> /\ text[Len(text)] = " "
    THEN trim_end(SubSeq(text, 1, Len(text) - 1))
    ELSE text

\* str::trim
trim(text) == trim_end(trim_start(text))

\* was_recording && !is_recording_now && !audio_buffer.is_empty()
EmitDue(was, is_recording_now, buffer) ==
    was /\ ~is_recording_now /\ buffer # <<>>

\* variant of Accumulate: the chunk is appended whatever the flag
AccumulateAlways(buffer, chunk, is_recording_now) == buffer \o <<chunk>>

\* if is_recording_now { audio_buffer.extend_from_slice(&chunk); }
Accumulate(buffer, chunk, is_recording_now) ==
    IF is_recording_now THEN buffer \o <<chunk>> ELSE buffer

\* variant of transcribe_audio: the call is spawned on a handle of the
\* engine that is not behind the mutex, and the loop goes on
transcribe_audio_spawned(pcv, eng, audio) ==
    [enabled |-> pcv = "lock", pc |-> "select", engine |-> Append(eng, audio)]

\* transcribe_audio(&audio_buffer).await for a task at pcv: the mutex is
\* taken when no call holds it, engine.transcribe runs, and the task waits
\* for its result.
transcribe_audio(pcv, eng, audio) ==
    [enabled |-> pcv = "lock" /\ eng = <<>>, pc |-> "running",
     engine |-> Append(eng, audio)]

\* variant of Sent: is_empty without trim
SentUntrimmed(ch, result, utterance) ==
    IF result.status = "ok" /\ result.text # <<>>
    THEN Append(ch, [text |-> result.text, utterance |-> utterance])
    ELSE ch

\* match on the result: Ok(text) with !text.trim().is_empty() is sent on
\* transcription_tx (with the number of its utterance, for the history);
\* an empty text and Err are logged.
Sent(ch, result, utterance) ==
    IF result.status = "ok" /\ trim(result.text) # <<>>
    THEN Append(ch, [text |-> result.text, utterance |-> utterance])
    ELSE ch

\* variant of AfterTranscribe: the audio is kept when the engine failed
AfterTranscribeKept(buffer, result) ==
    IF result.status = "err" THEN buffer ELSE <<>>

\* audio_buffer.clear() after the match, whatever the result
AfterTranscribe(buffer, result) == <<>>

(***************************************************************************)
(* transcribe.rs: WhisperTranscriber::new and the model name.  A name is   *)
(* the sequence of its characters.                                         *)
(***************************************************************************)
base_en == <<"b", "a", "s", "e", ".", "e", "n">>
small_en == <<"s", "m", "a", "l", "l", ".", "e", "n">>
tiny_en == <<"t", "i", "n", "y", ".", "e", "n">>
dot_bin == <<".", "b", "i", "n">>
ggml_base_en_bin == <<"g", "g", "m", "l", "-">> \o base_en \o dot_bin
ggml_small_en_q5_1_bin ==
    <<"g", "g", "m", "l", "-">> \o small_en \o <<"-", "q", "5", "_", "1">> \o dot_bin
ggml_tiny_en_bin == <<"g", "g", "m", "l", "-">> \o tiny_en \o dot_bin

\* str::contains
contains(name, pat) ==
    \E i \in 1..(Len(name) - Len(pat) + 1) : SubSeq(name, i, i + Len(pat) - 1) = pat

\* str::ends_with
ends_with(name, pat) ==
    /\ Len(name) >= Len(pat)
    /\ SubSeq(name, Len(name) - Len(pat) + 1, Len(name)) = pat

\* Result<String>: Ok(model_file) or Err
OkPath(model_file) == [ok |-> TRUE, path |-> model_file]
ErrPath == [ok |-> FALSE, path |-> <<>>]

\* map_model_name_to_path: the arms of the match, in order
map_model_name_to_path(model_name) ==
    IF model_name = base_en THEN OkPath(ggml_base_en_bin)
    ELSE IF model_name = small_en THEN OkPath(ggml_small_en_q5_1_bin)
    ELSE IF model_name = tiny_en THEN OkPath(ggml_tiny_en_bin)
    ELSE IF contains(model_name, dot_bin) THEN OkPath(model_name)
    ELSE IF ends_with(model_name, dot_bin) THEN OkPath(model_name)
    ELSE ErrPath

\* validate_model_for_pi: it warns, and returns Ok(()) for every name
validate_model_for_pi(model_name) == TRUE

\* the transcriber before WhisperTranscriber::new, configured with a name
Configured(model_name) ==
    [at |-> "config", model_name |-> model_name, mapped |-> ErrPath]

\* WhisperTranscriber::new: the name is validated and mapped (? returns the
\* Err), then SttEngine::new and warmup load the model, or fail.
WhisperTranscriber_new ==
    /\ whisper.at = "config"
    /\ LET mapped == map_model_name_to_path(whisper.model_name)
       IN  \E engine_ok \in BOOLEAN :
              whisper' = [whisper EXCEPT
                             !.mapped = mapped,
                             !.at = IF validate_model_for_pi(whisper.model_name)
                                       /\ mapped.ok /\ engine_ok
                                    THEN "ok" ELSE "err"]
    /\ UNCHANGED <<sync_loop, clientvars, pipeline, syncvars>>

\* the transcriber of a daemon that runs: new has returned Ok and the
\* engine is loaded (the name and the path are not used after that)
Loaded == [at |-> "ok"]

\* let mut was_recording = self.is_recording.load(Ordering::Acquire);
transcriber_start ==
    /\ pc = "start"
    /\ was_recording' = is_recording
    /\ pc' = "select"
    /\ UNCHANGED <<daemonvars, clientvars, blevars, decoder, decoded_rx, branch, audio_buffer, engine,
                   transcription_rx, history, syncvars>>

\* select!: audio_rx.recv() gives Some(chunk).  The flag is sampled; when
\* the recording has just stopped the branch calls transcribe_audio,
\* otherwise the chunk is appended or dropped and was_recording updated.
recv_chunk ==
    /\ pc = "select"
    /\ decoded_rx # <<>>
    /\ decoded_rx' = recv(decoded_rx).rest
    /\ LET is_recording_now == is_recording
       IN  IF EmitDue(was_recording, is_recording_now, audio_buffer)
           THEN /\ pc' = "lock"
                /\ branch' = "chunk"
                /\ UNCHANGED <<audio_buffer, was_recording, appended>>
           ELSE /\ audio_buffer' = Accumulate(audio_buffer, recv(decoded_rx).msg,
                                              is_recording_now)
                /\ was_recording' = is_recording_now
                /\ appended' = (appended \/ is_recording_now)
                /\ UNCHANGED <<pc, branch>>
    /\ UNCHANGED <<daemonvars, clientvars, blevars, decoder, engine, transcription_rx, log, written, cycles,
                   syncvars>>

\* variant of TickEmitDue: the timer branch only records the flag
TickEmitDueNever(was, is_recording_now, buffer) == FALSE

\* the condition of the timer branch (periodic check), the same as that of
\* the chunk branch
TickEmitDue(was, is_recording_now, buffer) == EmitDue(was, is_recording_now, buffer)

\* select!: the 100 ms sleep ends
tick ==
    /\ pc = "select"
    /\ LET is_recording_now == is_recording
       IN  IF TickEmitDue(was_recording, is_recording_now, audio_buffer)
           THEN /\ pc' = "lock"
                /\ branch' = "tick"
                /\ UNCHANGED was_recording
           ELSE /\ was_recording' = is_recording_now
                /\ UNCHANGED <<pc, branch>>
    /\ UNCHANGED <<daemonvars, clientvars, blevars, decoder, decoded_rx, audio_buffer, engine,
                   transcription_rx, history, syncvars>>

\* select!: audio_rx.recv() gives None (channel empty, decoded_tx dropped)
recv_closed ==
    /\ pc = "select"
    /\ decoded_rx = <<>>
    /\ decoder = "done"
    /\ LET is_recording_now == is_recording
       IN  IF EmitDue(was_recording, is_recording_now, audio_buffer)
           THEN pc' = "lock" /\ branch' = "closed"
           ELSE pc' = "done" /\ UNCHANGED branch
    /\ UNCHANGED <<daemonvars, clientvars, blevars, decoder, decoded_rx, audio_buffer, was_recording, engine,
                   transcription_rx, history, syncvars>>

\* the branch enters transcribe_audio: the utterance is handed to the engine
transcribe_begin ==
    LET call == transcribe_audio(pc, engine, audio_buffer)
    IN  /\ call.enabled
        /\ pc' = call.pc
        /\ engine' = call.engine
        /\ log' = Append(log, [audio |-> audio_buffer,
                               result |-> [status |-> "running", text |-> <<>>]])
        /\ UNCHANGED <<daemonvars, clientvars, blevars, decoder, decoded_rx, branch, audio_buffer,
                       was_recording, transcription_rx, written, appended, cycles,
                       syncvars>>

\* engine.transcribe returns result and the rest of the branch runs: the
\* match on the result, then (chunk and timer branches) the buffer is
\* cleared and was_recording takes the sampled flag, which was false;
\* the branch of the closed channel breaks out of the loop.
transcribe_end ==
    /\ pc = "running"
    /\ engine' = <<>>
    /\ \E result \in STTResults :
          /\ log' = [log EXCEPT ![Len(log)].result = result]
          /\ transcription_rx' = Sent(transcription_rx, result, Len(log))
          /\ IF branch = "closed"
             THEN /\ pc' = "done"
                  /\ UNCHANGED <<audio_buffer, was_recording>>
             ELSE /\ pc' = "select"
                  /\ audio_buffer' = AfterTranscribe(audio_buffer, result)
                  /\ was_recording' = FALSE
    /\ branch' = "none"
    /\ UNCHANGED <<daemonvars, clientvars, blevars, decoder, decoded_rx, written, appended, cycles, syncvars>>

(***************************************************************************)
(* main.rs: the transcription handler, fed by the transcriber              *)
(***************************************************************************)
\* one turn of while let Some(text) = transcription_rx.recv().await: the
\* wall clock is read, the record built and inserted (stored) and sent on
\* ws_broadcast_tx, or the insert fails and the record is dropped.
handle_transcription ==
    /\ transcription_rx # <<>>
    /\ transcription_rx' = recv(transcription_rx).rest
    /\ \E timestamp \in Times, stored \in BOOLEAN :
          LET m == recv(transcription_rx).msg
              t == NewTranscription(Cardinality(created) + 1, timestamp, m.text, Self)
          IN  /\ \A c \in created : c.source_node = Self => c.timestamp <= timestamp
              /\ IF stored
                 THEN /\ store' = [store EXCEPT ![Self] = insert_transcription(@, t)]
                      /\ created' = created \cup {t}
                      /\ Publish(Self, <<t>>)
                 ELSE UNCHANGED <<store, created, ws_broadcast, fanout_log>>
              /\ written' = Append(written, [utterance |-> m.utterance,
                                             timestamp |-> timestamp,
                                             id |-> IF stored THEN t.id ELSE 0])
    /\ UNCHANGED <<daemonvars, http, peers, live, blevars, decoder, decoded_rx, pc, branch, audio_buffer,
                   was_recording, engine, log, appended, cycles>>

\* the daemon after start_daemon has built its parts: empty tables, and
\* BleAudioReceiver::new has set the flag (start recording by default);
\* notifications are the audio notifications waiting for the decoder task
Constructed(notifications, transcriber) ==
    /\ store = [n \in Nodes |-> EmptyBag]
    /\ peers = [n \in Nodes |-> {}]
    /\ live = [n \in Nodes |-> {}]
    /\ created = {}
    /\ is_recording = TRUE
    /\ connected = FALSE
    /\ scan = "idle"
    /\ audio_task = 0
    /\ control_task = FALSE
    /\ last_control_value = NoControl
    /\ control_log = <<>>
    /\ audio_open = TRUE
    /\ captured = 0
    /\ audio_rx = notifications
    /\ decoder = "run"
    /\ decoded_rx = <<>>
    /\ pc = "start"
    /\ branch = "none"
    /\ audio_buffer = <<>>
    /\ was_recording = TRUE
    /\ engine = <<>>
    /\ transcription_rx = <<>>
    /\ log = <<>>
    /\ written = <<>>
    /\ appended = FALSE
    /\ cycles = 0
    /\ http = NoCall
    /\ whisper = transcriber
    /\ sync_loop = NoTick
    /\ ws_broadcast = [loop |-> "off", rx |-> <<>>, lagged |-> FALSE]
    /\ fanout_log = [published |-> <<>>, overwritten |-> {}, forwarded |-> <<>>]

Init == Constructed(<<>>, Loaded)

\* the steps of the nodes N that discover each other along the graph L and
\* produce at most max transcriptions
Step(N, L, max) ==
    \/ \E n \in N : \E p \in Adverts(n, L) : \E event \in ServiceEvents(p) :
          browse_event(n, event)
    \/ \E n \in N : \E p \in Adverts(n, L) : browse_event_dropped(n, p)
    \/ \E n \in N, p \in N : sync_with_peer_ok(n, p)
    \/ \E n \in N, p \in N : sync_with_peer_err(n, p)
    \/ \E n \in N : push_transcriptions(n)
    \/ \E n \in N : Cardinality(created) < max /\ LocalTranscription(n)
    \/ \E n \in N : Cardinality(created) < max /\ LocalTranscriptionErr(n)

Next == Step({"A", "B"}, PairLinks, MaxRecords)

Spec == Init /\ [][Next]_vars

RelayNext == Step(Nodes, RelayLinks, RelayRecords)

RelaySpec == Init /\ [][RelayNext]_vars

\* two nodes that produce transcriptions and push them to each other
PushNext ==
    \/ \E n \in {"A", "B"} : Cardinality(created) < MaxRecords /\ LocalTranscription(n)
    \/ \E n \in {"A", "B"} : push_transcriptions(n)

PushSpec == Init /\ [][PushNext]_vars

\* the audio pipeline of one node, from the device to the store
PipelineNext ==
    \/ try_connect_device
    \/ audio_notification
    \/ \E control_value \in ControlValues :
          control_notification(control_value) /\ UNCHANGED control_log
    \/ ble_stop
    \/ decoder_recv
    \/ decoder_exit
    \/ transcriber_start
    \/ recv_chunk
    \/ tick
    \/ recv_closed
    \/ transcribe_begin
    \/ transcribe_end
    \/ handle_transcription

PipelineSpec == Init /\ [][PipelineNext]_vars

\* the audio pipeline up to the utterance buffer and the engine: the texts
\* stay in transcription_rx
BufferNext ==
    \/ try_connect_device
    \/ audio_notification
    \/ \E control_value \in ControlValues :
          control_notification(control_value) /\ UNCHANGED control_log
    \/ ble_stop
    \/ decoder_recv
    \/ decoder_exit
    \/ transcriber_start
    \/ recv_chunk
    \/ tick
    \/ recv_closed
    \/ transcribe_begin
    \/ transcribe_end

BufferSpec == Init /\ [][BufferNext]_vars

\* The select! of the transcriber is polled again whenever its task is
\* woken: the 100 ms sleep ends when no chunk arrives before it, the engine
\* mutex is granted, and engine.transcribe returns.
BufferFairSpec ==
    BufferSpec /\ WF_vars(tick) /\ WF_vars(transcribe_begin) /\ WF_vars(transcribe_end)

\* the wire form of a bundle: index, frame count, and for each frame its
\* size and its payload
RECURSIVE WireFrames(_)
WireFrames(frames) ==
    IF frames = <<>> THEN <<>>
    ELSE <<Len(Head(frames))>> \o Head(frames) \o WireFrames(Tail(frames))

Bundle(bundle_index, frames) == <<bundle_index, Len(frames)>> \o WireFrames(frames)

\* the audio notifications of DecodeSpec: every byte sequence up to
\* MaxBundle bytes, the bundles of 3 frames that are empty, fail to decode
\* or hold one byte, the bundles of 10 frames that are empty or hold one
\* byte, and a bundle of 11 frames
Bundles ==
    UNION {BytesOfLength(n) : n \in 0..MaxBundle}
       \cup {Bundle(0, frames) : frames \in [1..3 -> {<<>>, <<0>>, <<2>>}]}
       \cup {Bundle(0, frames) : frames \in [1..10 -> {<<>>, <<2>>}]}
       \cup {Bundle(0, [i \in 1..11 |-> <<2>>])}

\* the decoder task with two notifications to decode: a bundle and, before
\* it, the bundle cut after any number of its bytes
DecodeInit ==
    \E encoded \in Bundles : \E k \in 0..Len(encoded) :
       Constructed(<<SubSeq(encoded, 1, k), encoded>>, Loaded)

DecodeSpec == DecodeInit /\ [][decoder_decode]_vars

\* the BLE receiver of one node and its device: the scan loop, the two
\* notification tasks and their streams, with the history of the control
\* notifications
BleNext ==
    \/ try_connect_device
    \/ \E step \in SetupSteps : audio_task < MaxTasks /\ try_connect_err(step)
    \/ audio_notification
    \/ audio_stream_end
    \/ control_stream_end
    \/ \E control_value \in ControlValues :
          /\ Len(control_log) < MaxControls
          /\ control_notification(control_value)
          /\ logged_control(control_value)

BleSpec == Init /\ [][BleNext]_vars

\* the scan loop of BleAudioReceiver::start keeps calling
\* try_connect_device for the device, every 2 s
BleFairSpec == BleSpec /\ WF_vars(try_connect_device)

\* The webhook of the node Self: it produces transcriptions and posts each
\* record it has stored; the endpoint answers anything.
HttpNext ==
    \/ Cardinality(created) < MaxRecords /\ LocalTranscription(Self)
    \/ \E t \in Rows(Self) : post_transcription_call(t)
    \/ \E outcome \in Outcomes : post_response(outcome)
    \/ post_sleep_end

HttpSpec == Init /\ [][HttpNext]_vars

\* The model names a configuration can carry: the three listed ones, the
\* file names they map to, and every text of at most MaxName characters
\* over a few letters.
NameChars == {".", "b", "i", "n", "x"}

RECURSIVE NamesOfLength(_)
NamesOfLength(n) ==
    IF n = 0 THEN {<<>>}
    ELSE {Append(name, c) : name \in NamesOfLength(n - 1), c \in NameChars}

ModelNames ==
    {base_en, small_en, tiny_en, ggml_base_en_bin, ggml_small_en_q5_1_bin, ggml_tiny_en_bin}
    \cup UNION {NamesOfLength(n) : n \in 0..MaxName}

ModelInit == \E model_name \in ModelNames : Constructed(<<>>, Configured(model_name))

ModelSpec == ModelInit /\ [][WhisperTranscriber_new]_vars

\* The client fan-out of the node Self, which discovers the node B: both
\* produce transcriptions, B pushes its rows to Self and Self pulls from
\* B, while the WebSocket server of Self starts and runs broadcast_loop.
CanPublish == Len(fanout_log.published) < MaxPublished

FanoutNext ==
    \/ broadcast_loop_subscribe
    \/ broadcast_loop_recv
    \/ \E n \in {Self, "B"} :
          CanPublish /\ Cardinality(created) < MaxRecords /\ LocalTranscription(n)
    \/ CanPublish /\ push_transcriptions(Self)
    \/ \E event \in ServiceEvents("B") : browse_event(Self, event)
    \/ sync_with_peer_ok(Self, "B")

FanoutSpec == Init /\ [][FanoutNext]_vars

\* The peer manager of Self: discovery hands it the peers B and C, each at
\* one of two addresses, while the sync loop ticks; B produces records.
DiscoveredPeers ==
    {[node_id |-> p, address |-> address, grpc_port |-> 50051] :
        p \in {"B", "C"}, address \in {"moved"}} \cup
    {[node_id |-> p, address |-> p, grpc_port |-> 50051] : p \in {"B", "C"}}

TickNext ==
    \/ \E peer \in DiscoveredPeers : add_peer(Self, peer)
    \/ \E peer \in DiscoveredPeers : add_peer_wait(peer)
    \/ add_peer_granted
    \/ sync_tick_begin
    \/ \E p \in Nodes : sync_tick_peer(p)
    \/ sync_tick_end
    \/ Cardinality(created) < RelayRecords /\ LocalTranscription("B")

TickSpec == Init /\ [][TickNext]_vars

\* every call of sync_with_peer returns, Ok or Err, and so does the tick;
\* the ticker fires; the lock is granted to a waiting writer when free
TickFairSpec ==
    TickSpec /\ WF_vars(\E p \in Nodes : sync_tick_peer(p))
             /\ WF_vars(sync_tick_end)
             /\ WF_vars(sync_tick_begin)
             /\ WF_vars(add_peer_granted)

\* send() returns within the 30 s timeout of the client, and sleep returns
HttpFairSpec ==
    HttpSpec /\ WF_vars(\E outcome \in Outcomes : post_response(outcome))
             /\ WF_vars(post_sleep_end)

\* Scenario S4 of the specification: the flag trace and the chunks that
\* arrive aligned with it
S4Flags == <<FALSE, FALSE, TRUE, TRUE, TRUE, FALSE, FALSE, TRUE, FALSE>>

S4Chunks == <<"a", "b", "c", "d", "e", "f", "g", "h", "i">>

\* the next chunk of the scenario arrives at the utterance buffer when the
\* flag has the value the trace gives for it, the chunk before it handled
aligned_chunk ==
    /\ pc = "select"
    /\ decoded_rx = <<>>
    /\ captured < Len(S4Flags)
    /\ captured' = captured + 1
    /\ StoreFlag(S4Flags[captured + 1])
    /\ decoded_rx' = <<S4Chunks[captured + 1]>>
    /\ UNCHANGED <<daemonvars, clientvars, connected, scan, audio_task, control_task, last_control_value,
                   control_log, audio_open, audio_rx, decoder, transcribervars,
                   log, written, syncvars>>

\* the transcriber and the transcription handler fed with the scenario
ScenarioNext ==
    \/ aligned_chunk
    \/ transcriber_start
    \/ recv_chunk
    \/ tick
    \/ transcribe_begin
    \/ transcribe_end
    \/ handle_transcription

ScenarioSpec == Init /\ [][ScenarioNext]_vars

(***************************************************************************)
(* Properties                                                              *)
(***************************************************************************)
\* every record a node could be asked to insert
AllRecords ==
    [id : 1..MaxRecords, timestamp : Times, text : Texts, source_node : Nodes,
     memo_device_id : {None}, synced : BOOLEAN]

\* insert_transcription(t) on the store of node A, for any record t
InsertAny(t) ==
    /\ store' = [store EXCEPT !["A"] = insert_transcription(@, t)]
    /\ UNCHANGED <<daemonvars, clientvars, peers, live, created, pipeline>>

\* the store of one node under arbitrary calls of insert_transcription
InsertSpec == Init /\ [][\E t \in AllRecords : InsertAny(t)]_vars

\* C2. Cursor monotonicity: no step of a node, whether a sync round that
\* succeeds or one that fails, removes a row of its peers table or lowers
\* the last_sync_timestamp stored for a peer node_id.
CursorMonotone ==
    [][\A n \in Nodes : \A row \in peers[n] :
          \E row2 \in peers'[n] :
             /\ row2.node_id = row.node_id
             /\ row2.last_sync_timestamp >= row.last_sync_timestamp]_vars

\* a node's cursor for a peer stands at 2 and the node holds a record of
\* timestamp 1 that the peer produced
CursorAdvanced ==
    \E n \in Nodes, p \in Nodes :
       /\ LastSync(n, p) = 2
       /\ \E r \in Rows(n) : r.synced /\ r.timestamp = 1 /\ r.source_node = p

\* C3. Idempotence of insert: for every state of the table that calls of
\* insert_transcription lead to and every record t, insert_transcription(t)
\* twice leaves the table as insert_transcription(t) once does.
InsertIdempotent ==
    \A t \in AllRecords :
       insert_transcription(insert_transcription(store["A"], t), t)
          = insert_transcription(store["A"], t)

\* a full table in which a stored row is inserted again
InsertedAgain ==
    /\ BagCardinality(store["A"]) = MaxRecords
    /\ \E r \in Rows("A") : insert_transcription(store["A"], r) = store["A"]

\* C4. At-most-once storage: in every reachable state the table of every
\* node holds at most one row for each id.
AtMostOnce ==
    \A n \in Nodes : \A i \in 1..MaxRecords :
       BagCardinality([r \in {x \in Rows(n) : x.id = i} |-> store[n][r]]) <= 1

\* the record a node produced has been delivered back to it by a peer
Redelivered ==
    \E n \in Nodes : \E r \in Rows(n) : r.source_node = n /\ r.synced

\* C5. source_node is immutable: a step never changes the source_node of a
\* stored id, and every copy in every store carries the source_node its
\* producer gave the record.
SourceNodeImmutable ==
    [][\A n \in Nodes : \A r2 \in Rows(n)' :
          /\ \E c \in created' : c.id = r2.id /\ c.source_node = r2.source_node
          /\ \A r \in Rows(n) : r.id = r2.id => r2.source_node = r.source_node]_vars

\* a node holds a copy of a record another node produced, and its own
\* record has been written a second time
CopiesAndRewrites ==
    /\ \E n \in Nodes : \E r \in Rows(n) : r.source_node # n
    /\ Redelivered

MaxOf(S) == CHOOSE x \in S : \A y \in S : y <= x

\* the nodes hold the same ids
Converged ==
    \A n \in {"A", "B"}, m \in {"A", "B"} : \A r \in Rows(n) :
       \E r2 \in Rows(m) : r2.id = r.id

\* A and B have discovered each other and no pull-sync round can fetch
\* anything any more: every peer serves an empty stream for the cursor its
\* puller holds.  Cursors never go down and the timestamp of a stored
\* record never changes, so a record that a node lacks in such a state is
\* never fetched by a later round either.
Quiescent ==
    \A l \in PairLinks :
       /\ l[2] \in live[l[1]]
       /\ Served(l[2], LastSync(l[1], l[2])) = {<<>>}

\* C1. Eventual convergence: with fixed membership, a connected discovery
\* graph and rounds that succeed, every record held by a node ends up on
\* every node.  As a final result: once the rounds have nothing left to
\* fetch, all nodes hold the same records.
EventualConvergence == Quiescent => Converged

\* C6. synced = true exactly for the rows that arrived by replication: a
\* row of a node's store is synced iff the node did not produce the record
\* itself (nothing in the daemon confirms a posting: mark_synced has no
\* caller), so a record the node produced stays synced = false.
SyncedIffReplicated ==
    \A n \in Nodes : \A r \in Rows(n) :
       r.synced <=> ~(\E c \in created : c.id = r.id /\ c.source_node = n)

\* C7. Result of a successful round of n from p with cursor ts: n then
\* holds every record p held with timestamp > ts, with the same id,
\* timestamp, text and source_node and synced = true, and n's cursor for p
\* is the maximum of ts and the timestamps received.  Stated of every round
\* that can succeed in a reachable state.
SyncResult ==
    \A n \in Nodes, p \in Nodes : p \in live[n] =>
       \A msgs \in Served(p, LastSync(n, p)) :
          LET ts == LastSync(n, p)
              newer == {r \in Rows(p) : r.timestamp > ts}
              after == BagToSet(RoundStore(n, msgs))
          IN  /\ \A r \in newer : \E r2 \in after :
                    /\ r2.id = r.id
                    /\ r2.timestamp = r.timestamp
                    /\ r2.text = r.text
                    /\ r2.source_node = r.source_node
                    /\ r2.synced
              /\ LastSyncIn(RoundPeers(n, p, msgs, TRUE), p)
                    = MaxOf({ts} \cup {r.timestamp : r \in newer})

\* a node has pulled two records from a peer and its cursor is at the
\* greater timestamp
PulledTwo ==
    \E n \in Nodes, p \in Nodes :
       /\ LastSync(n, p) = 2
       /\ \E r1 \in Rows(n), r2 \in Rows(n) :
             /\ r1.synced /\ r1.source_node = p /\ r1.timestamp = 1
             /\ r2.synced /\ r2.source_node = p /\ r2.timestamp = 2

\* C8. A successful round of n from p while p holds nothing newer than n's
\* cursor for p leaves n's transcriptions and n's last_sync_timestamp for p
\* as they were.
NoNewDataNoChange ==
    \A n \in Nodes, p \in Nodes :
       (p \in live[n] /\ \A r \in Rows(p) : r.timestamp <= LastSync(n, p)) =>
          \A msgs \in Served(p, LastSync(n, p)) :
             /\ RoundStore(n, msgs) = store[n]
             /\ LastSyncIn(RoundPeers(n, p, msgs, TRUE), p) = LastSync(n, p)

\* n's cursor for p is at the timestamp of all that p holds, and p holds a
\* copy of a record n produced: a further round finds no new data
NothingNewer ==
    \E n \in Nodes, p \in Nodes :
       /\ p \in live[n]
       /\ LastSync(n, p) = 1
       /\ \A r \in Rows(p) : r.timestamp <= 1
       /\ \E r \in Rows(p) : r.source_node = n
       /\ \E r \in Rows(n) : r.source_node = n /\ ~r.synced

\* C9. A round that fails, after any number k of stored messages, leaves
\* the peers table as it was, so the cursor keeps its value from before
\* the round, and the stream the peer serves for the next request holds
\* every record the failed round did not get to again.
FailedRoundKeepsCursor ==
    \A n \in Nodes, p \in Nodes : p \in live[n] =>
       \A msgs \in Served(p, LastSync(n, p)) : \A k \in 0..Len(msgs) :
          LET after == RoundPeers(n, p, SubSeq(msgs, 1, k), FALSE)
          IN  /\ after = peers[n]
              /\ LastSyncIn(after, p) = LastSync(n, p)
              /\ \A again \in Served(p, LastSyncIn(after, p)) :
                    \A i \in (k + 1)..Len(msgs) :
                       \E j \in 1..Len(again) : again[j] = msgs[i]

\* n holds replicated copies of some, not all, of the records of p that
\* are newer than n's cursor for p: what a round that broke off leaves
BrokenOff ==
    \E n \in Nodes, p \in Nodes :
       /\ p \in live[n]
       /\ \E r \in Rows(p), q \in Rows(p) :
             /\ r.timestamp > LastSync(n, p)
             /\ q.timestamp > LastSync(n, p)
             /\ \E r2 \in Rows(n) : r2.id = r.id /\ r2.synced
             /\ \A q2 \in Rows(n) : q2.id # q.id

\* C10. Relay: the rows b obtained by replication are served like its own.
\* When c pulls from b, every synced row of b newer than c's cursor for b
\* is then held by c with the source_node of its producer and synced =
\* true, and c's cursor for b is at least its timestamp; and a pull of c,
\* from whichever peer and however far it gets, leaves the synced rows c
\* already holds unchanged.
Relay ==
    \A c \in Nodes, b \in Nodes : b \in live[c] =>
       \A msgs \in Served(b, LastSync(c, b)) :
          /\ \A r \in Rows(b) : (r.synced /\ r.timestamp > LastSync(c, b)) =>
                /\ \E r2 \in BagToSet(RoundStore(c, msgs)) :
                      /\ r2.id = r.id
                      /\ r2.synced
                      /\ r2.source_node = r.source_node
                      /\ \E k \in created : k.id = r.id /\ k.source_node = r2.source_node
                /\ LastSyncIn(RoundPeers(c, b, msgs, TRUE), b) >= r.timestamp
          /\ \A k \in 0..Len(msgs) :
                LET after == RoundStore(c, SubSeq(msgs, 1, k))
                IN  \A r \in Rows(c) : r.synced =>
                       r \in BagToSet(after) /\ after[r] = store[c][r]

\* C holds the record of A that it pulled from B, which had pulled it from
\* A, and C has completed a round with A as well
Relayed ==
    \E r \in Rows("C") :
       /\ r.source_node = "A" /\ r.synced
       /\ LastSync("C", "B") >= r.timestamp
       /\ \E q \in Rows("B") : q.id = r.id /\ q.synced
       /\ get_peer(peers["C"], "A") # {}

\* C11. Equal-timestamp tie-break: when n's cursor for p equals t, the
\* records of p whose timestamp equals t are fetched again by the next
\* pull of n from p, so a record with timestamp equal to the cursor is not
\* skipped.
EqualTimestampRefetched ==
    \A n \in Nodes, p \in Nodes : (p \in live[n] /\ get_peer(peers[n], p) # {}) =>
       \A msgs \in Served(p, LastSync(n, p)) :
          \A r \in Rows(p) : r.timestamp = LastSync(n, p) =>
             \E i \in 1..Len(msgs) : msgs[i].id = r.id

\* C12. GetTranscriptionsSince(since) streams exactly the rows of the
\* serving node with timestamp > since, each once, in ascending timestamp
\* order, and then ends: no row with timestamp <= since is sent.
StreamsExactlyNewer ==
    \A p \in Nodes, since \in Sinces :
       \A msgs \in Served(p, since) :
          LET newer == {r \in Rows(p) : r.timestamp > since}
          IN  /\ Len(msgs) = Cardinality(newer)
              /\ \A r \in newer :
                    Cardinality({i \in 1..Len(msgs) : msgs[i] = ToProto(r)}) = 1
              /\ \A i \in 1..Len(msgs) :
                    /\ msgs[i].timestamp > since
                    /\ \E r \in newer : msgs[i] = ToProto(r)
              /\ \A i \in 1..Len(msgs), j \in 1..Len(msgs) :
                    i < j => msgs[i].timestamp <= msgs[j].timestamp

\* a peer that holds a row at the cursor of its puller and a newer one: the
\* stream for that cursor has to leave out the first and carry the second
ServesNewerOnly ==
    \E n \in Nodes, p \in Nodes :
       /\ p \in live[n]
       /\ LastSync(n, p) = 1
       /\ \E r \in Rows(p), q \in Rows(p) :
             /\ r.timestamp = 1 /\ q.timestamp = 2
             /\ \E msgs \in Served(p, 1) : Len(msgs) = 1 /\ msgs[1].id = q.id

\* the result of push_transcriptions for the client stream msgs of peer p,
\* on whichever other node: a call that returns a response has stored
\* every message as converted, synced = true, has sent every message to
\* the fan-out and returns their number; a call that fails after k
\* messages returns an internal status
PushPost(p, msgs) ==
    /\ PushReturn(Len(msgs), TRUE) = [received |-> Len(msgs)]
    /\ Len(PushSent(msgs, Len(msgs))) = Len(msgs)
    /\ \A i \in 1..Len(msgs) :
          /\ ToProto(PushSent(msgs, Len(msgs))[i]) = msgs[i]
          /\ PushSent(msgs, Len(msgs))[i].synced
    /\ \A n \in Nodes \ {p} :
          LET after == BagToSet(PushStore(store[n], msgs, Len(msgs)))
          IN  \A i \in 1..Len(msgs) :
                 \E r \in after : ToProto(r) = msgs[i] /\ r.synced
    /\ \A k \in 0..Len(msgs) :
          PushReturn(k, FALSE) = [status |-> "internal"]

\* C13. PushTranscriptions: when the call returns a response, every record
\* received on the client stream is in the store with synced = true and
\* has been sent to the client fan-out, and received is the number of
\* records received; when the stream or the storage fails, the call ends
\* with an internal status instead of a count.  Stated of the streams a
\* peer can send in a reachable state: one row of its store, or its rows
\* newer than some timestamp in the order of its query.
PushResult ==
    \A p \in Nodes :
       /\ \A msgs \in OneRowStreams(p) : PushPost(p, msgs)
       /\ \A since \in Sinces : \A msgs \in Served(p, since) : PushPost(p, msgs)

\* a node that has discovered nobody holds a copy of a record of another
\* node: the copy was pushed to it
Pushed ==
    \E n \in Nodes :
       /\ live[n] = {}
       /\ \E r \in Rows(n) : r.synced /\ r.source_node # n

\* the utterance buffer has seen the flag's last change: the flag is false
\* and the buffer has sampled it as false and is back in its select!
Settled == pc = "select" /\ ~is_recording /\ ~was_recording

\* C14. Edge-triggered utterances: for every cycle of the flag, a period of
\* true that ends with false, during which a chunk was appended, the
\* buffer emits exactly one utterance, whatever the interleaving of flag
\* changes, chunks, timer ticks and transcriptions.  As a final result:
\* once the buffer has seen the flag's last change, the utterances handed
\* to the engine are as many as those cycles.
OneUtterancePerCycle == Settled => Len(log) = cycles

\* C15. The utterance buffer never emits while the flag is true: in every
\* step that hands an utterance to the STT engine (the log grows), the
\* shared flag is false.
NeverEmitsWhileRecording ==
    [][Len(log') > Len(log) => ~is_recording]_vars

\* the audio of the utterances handed to the engine so far
Utterances == [i \in 1..Len(log) |-> log[i].audio]

\* every chunk of scenario S4 has arrived and has been handled
ScenarioDone ==
    /\ captured = Len(S4Flags)
    /\ decoded_rx = <<>>
    /\ pc = "select"

\* C16. Utterance gating scenario: with the flag trace F,F,T,T,T,F,F,T,F
\* and the chunks a..i arriving aligned with it, the emitted utterances
\* are exactly [b,c,d,e] and [h].
GatingAsClaimed ==
    ScenarioDone => Utterances = << <<"b", "c", "d", "e">>, <<"h">> >>

\* C16, amended.  With the flag trace F,F,T,T,T,F,F,T,F and the chunks
\* a..i arriving aligned with it, the emitted utterances are exactly
\* [c,d,e] and [h]: b arrives while the flag is false and is dropped like
\* every chunk received while the flag is false.
GatingScenario ==
    ScenarioDone => Utterances = << <<"c", "d", "e">>, <<"h">> >>

\* the scenario has run to its end and both utterances have been emitted
ScenarioRun ==
    /\ ScenarioDone
    /\ Len(log) > 1

\* the texts in flight to the handler, and the texts it has taken, that
\* come from utterance n
InFlight(n) == {i \in 1..Len(transcription_rx) : transcription_rx[i].utterance = n}

Taken(n) == {i \in 1..Len(written) : written[i].utterance = n}

\* C17. Transcription worker output: an STT result that is empty after
\* trim (or an error) produces no record; every non-empty result produces
\* one text, which is in flight to the handler or has been taken by it
\* once, and when the store accepted it there is exactly one row for it,
\* with an id no other record has, the wall-clock timestamp the handler
\* read, the text, source_node equal to the node's id, no device id and
\* synced = false.  The store holds no other rows.
WorkerOutput ==
    /\ \A n \in 1..Len(log) :
          IF log[n].result.status = "ok" /\ trim(log[n].result.text) # <<>>
          THEN /\ Cardinality(InFlight(n)) + Cardinality(Taken(n)) = 1
               /\ \A i \in Taken(n) : written[i].id # 0 =>
                     /\ \A j \in 1..Len(written) : j # i => written[j].id # written[i].id
                     /\ \E r \in Rows(Self) :
                           /\ r = NewTranscription(written[i].id, written[i].timestamp,
                                                   log[n].result.text, Self)
                           /\ r.source_node = Self
                           /\ r.memo_device_id = None
                           /\ ~r.synced
                           /\ store[Self][r] = 1
                           /\ \A q \in Rows(Self) : q.id = r.id => q = r
          ELSE InFlight(n) = {} /\ Taken(n) = {}
    /\ Cardinality(Rows(Self)) = Cardinality({i \in 1..Len(written) : written[i].id # 0})

\* one utterance gave a text of blanks, which was dropped, and another a
\* text with blanks around it, which is stored as it came
BlankAndText ==
    /\ \E n \in 1..Len(log) : log[n].result = [status |-> "ok", text |-> <<" ">>]
    /\ \E r \in Rows(Self) : r.text = <<" ", "y", "o", " ">> /\ ~r.synced

\* the chunks of a sequence of audio
Chunks(audio) == {audio[i] : i \in 1..Len(audio)}

\* C18. When the STT engine returns an error for an utterance, the
\* utterance is discarded without retry: no text and no record come from
\* it, its audio is in no other utterance and has left the accumulator;
\* and the worker keeps running: it ends only when its channel is closed.
ErrorDiscards ==
    /\ \A n \in 1..Len(log) : log[n].result.status = "err" =>
          /\ InFlight(n) = {}
          /\ Taken(n) = {}
          /\ \A m \in 1..Len(log) :
                m # n => Chunks(log[m].audio) \cap Chunks(log[n].audio) = {}
          /\ pc # "done" => Chunks(audio_buffer) \cap Chunks(log[n].audio) = {}
    /\ pc = "done" => decoder = "done"

\* the engine failed on one utterance and the text of a later one is stored
StoredAfterError ==
    \E n \in 1..Len(log), m \in 1..Len(log) :
       /\ n < m
       /\ log[n].result.status = "err"
       /\ \E i \in Taken(m) : written[i].id # 0

\* C19. At most one transcription runs at a time: in no reachable state
\* are two calls of engine.transcribe in progress.
OneTranscriptionAtATime == Len(engine) <= 1

\* a second utterance is being transcribed while a chunk waits in the
\* channel for the transcriber
TranscribingWhileChunksWait ==
    /\ Len(engine) = 1
    /\ Len(log) > 1
    /\ decoded_rx # <<>>

\* the numbers of a sequence go up
Ascending(seq) == \A i \in 1..Len(seq), j \in 1..Len(seq) : i < j => seq[i] < seq[j]

RECURSIVE Concat(_)
Concat(seqs) == IF seqs = <<>> THEN <<>> ELSE Head(seqs) \o Concat(Tail(seqs))

ActedBefore(i) == {j \in 1..(i - 1) : control_log[j].acted}

PrevActed(i) ==
    IF ActedBefore(i) = {} THEN NoControl ELSE control_log[MaxOf(ActedBefore(i))].value

\* C21. Debounce: on the device's control stream, every control value the
\* host acts upon differs from the previous value it acted upon (the
\* debounce state is that value); a notification whose value equals the
\* last acted-upon value is ignored and changes neither the flag nor the
\* debounce state.
Debounce ==
    \A i \in 1..Len(control_log) :
       LET e == control_log[i]
       IN  /\ e.before.last = PrevActed(i)
           /\ e.acted => (e.value # PrevActed(i) /\ e.after.last = e.value)
           /\ e.value = PrevActed(i) => (~e.acted /\ e.after = e.before)

\* a value was acted upon, its repetition was ignored while the flag had
\* been set again by the connection, and a different value was acted upon
\* after it
DuplicateIgnored ==
    /\ Len(control_log) = MaxControls
    /\ control_log[1].acted /\ control_log[1].value = RESP_SPEECH_END
    /\ ~control_log[2].acted /\ control_log[2].before.flag
    /\ control_log[3].acted

\* C22. Recording flag protocol: once the device is subscribed (it joins
\* the connected set) the host has written START_RECORDING and is_recording
\* is true; thereafter, right after the host acts on SPEECH_START the flag
\* is true, right after it acts on SPEECH_END the flag is false, and any
\* other control value leaves the flag unchanged.
FlagProtocol ==
    [][/\ (connected' /\ ~connected) => is_recording'
       /\ Len(control_log') > Len(control_log) =>
             LET e == control_log'[Len(control_log')]
             IN  /\ (e.acted /\ e.value = RESP_SPEECH_START) => is_recording'
                 /\ (e.acted /\ e.value = RESP_SPEECH_END) => ~is_recording'
                 /\ e.value \notin {RESP_SPEECH_START, RESP_SPEECH_END} =>
                       is_recording' = is_recording]_vars

\* C23. Reconnect after stream end: when the audio notification stream of
\* the connected device has ended, the process keeps running and a
\* following scan tick that sees the device drives it through connect,
\* discover and subscribe again, so that a task forwards its audio again.
ReconnectAfterStreamEnd ==
    (connected /\ audio_task = 0) ~> (audio_task > 0)

\* the payloads of the first n frames in data, as far as data holds them
RECURSIVE SplitFrames(_, _)
SplitFrames(data, n) ==
    IF n = 0 \/ data = <<>> \/ data[1] + 1 > Len(data) THEN <<>>
    ELSE <<SubSeq(data, 2, data[1] + 1)>>
            \o SplitFrames(SubSeq(data, data[1] + 2, Len(data)), n - 1)

FramesOf(encoded) == SplitFrames(Tail(Tail(encoded)), encoded[2])

\* encoded is [index][N][size_1][payload_1]...[size_N][payload_N] with
\* 1 <= N <= 10: it is the wire form of its N frames
WellFormed(encoded) ==
    /\ Len(encoded) >= 2
    /\ encoded[2] \in 1..10
    /\ Bundle(encoded[1], FramesOf(encoded)) = encoded

\* the PCM of the frames that decode successfully, in frame order
RECURSIVE PcmOf(_)
PcmOf(frames) ==
    IF frames = <<>> THEN <<>>
    ELSE (IF Head(frames) # <<>> /\ opus_decode(Head(frames)).status = "ok"
          THEN opus_decode(Head(frames)).samples ELSE <<>>)
            \o PcmOf(Tail(frames))

\* C24. Bundle decode result: for any bundle [index][N][size_1][payload_1]
\* ...[size_N][payload_N] with 1 <= N <= 10, decode returns the
\* concatenation, in frame order, of the PCM of the frames that decoded
\* successfully; for empty input, input shorter than 2 bytes, N = 0 or
\* N > 10 it returns an empty sample sequence.
BundleDecode ==
    \A i \in 1..Len(audio_rx) :
       LET encoded == audio_rx[i]
       IN  /\ WellFormed(encoded) =>
                decode(encoded) = [status |-> "ok", samples |-> PcmOf(FramesOf(encoded))]
           /\ (Len(encoded) < 2 \/ encoded[2] = 0 \/ encoded[2] > 10) =>
                decode(encoded) = [status |-> "ok", samples |-> <<>>]

\* the decoder task has decoded a bundle of a frame of two bytes and a
\* frame of one byte and has sent their samples, in frame order
TwoFramesDecoded ==
    /\ audio_rx = <<>>
    /\ Len(decoded_rx) = 2
    /\ decoded_rx[2] = <<211, 222, 112>>
    /\ decoded_rx[1] = decoded_rx[2]

IsPrefix(s, t) == Len(s) <= Len(t) /\ SubSeq(t, 1, Len(s)) = s

\* the frames of a bundle whose bytes all lie within its first k bytes
FramesWithin(frames, k) ==
    LET whole == {j \in 0..Len(frames) : 2 + Len(WireFrames(SubSeq(frames, 1, j))) <= k}
    IN  IF whole = {} THEN <<>> ELSE SubSeq(frames, 1, MaxOf(whole))

\* C25. Truncation: when a frame's declared size overruns the bundle,
\* decode stops at that frame and returns the PCM of the frames before it,
\* so the decode of a truncated bundle is a prefix of the decode of the
\* complete bundle it was cut from.  Stated of the two notifications that
\* wait for the decoder task, a bundle and, before it, the bundle cut
\* after some number of its bytes.
Truncation ==
    Len(audio_rx) = 2 =>
       LET cut == audio_rx[1]
           encoded == audio_rx[2]
       IN  /\ IsPrefix(decode(cut).samples, decode(encoded).samples)
           /\ WellFormed(encoded) =>
                decode(cut).samples = PcmOf(FramesWithin(FramesOf(encoded), Len(cut)))

\* the decoder task has decoded a bundle of two frames that was cut
\* within its second frame, and has sent the sample of the first frame;
\* the whole bundle waits
CutBundleDecoded ==
    /\ audio_rx = << <<0, 2, 1, 1, 2, 1, 2>> >>
    /\ decoded_rx = << <<111>> >>

\* the frames that the decoder does not skip
Kept(frames) ==
    SelectSeq(frames, LAMBDA f : f # <<>> /\ opus_decode(f).status = "ok")

\* C26. Decoder error policy: decode never returns an error, for any input
\* bytes; a zero-size frame and a frame whose opus decode fails are skipped
\* and the following frames of the bundle are still decoded (the result is
\* that of the bundle without the skipped frames); the only failure is
\* constructing the decoder with a sample rate other than 16000 Hz, and
\* construction for 16 kHz succeeds with a frame size of 320 samples.
DecoderErrorPolicy ==
    /\ \A i \in 1..Len(audio_rx) :
          LET encoded == audio_rx[i]
          IN  /\ decode(encoded).status = "ok"
              /\ WellFormed(encoded) =>
                   decode(encoded).samples
                      = decode(Bundle(encoded[1], Kept(FramesOf(encoded)))).samples
    /\ \A sample_rate \in {8000, 16000, 48000} :
          OpusDecoder_new(sample_rate).status = "ok" <=> sample_rate = 16000
    /\ OpusDecoder_new(16000).frame_size_samples = 320

\* the decoder task has decoded a bundle whose first frame is empty and
\* whose second frame fails to decode, and has sent the sample of its third
\* frame; the same bundle waits once more
SkippedFramesDecoded ==
    /\ audio_rx = << <<0, 3, 0, 1, 0, 1, 2>> >>
    /\ decoded_rx = << <<112>> >>


\* what the claim says of a call of post_transcription in progress or
\* returned: posts are the POST attempts, delays the sleeps between them
RetrySafe ==
    LET n == Len(http.posts)
        Success(i) == http.posts[i].ok /\ http.posts[i].status \in 200..299
    IN  /\ n <= 4
        /\ \A i \in 1..n : Success(i) => i = n /\ http.at = "ok"
        /\ http.at = "ok" => n > 0 /\ Success(n)
        /\ http.at = "err" => n = 4 /\ http.delays = <<1, 2, 4>>
        /\ http.at \in {"send", "sleep"} => n < 4
        /\ http.delays = SubSeq(<<1, 2, 4>>, 1, IF http.at \in {"ok", "err"} THEN n - 1 ELSE n)
        /\ http.at = "sleep" => n > 0
        /\ http.at = "idle" => n = 0

\* C27: post_transcription always terminates; it returns Ok at the first
\* 2xx response, retries after every other response or transport error
\* with delays 1 s, 2 s, 4 s in that order, makes at most 4 POST attempts
\* and then returns Err.
WebhookRetry ==
    /\ []RetrySafe
    /\ (http.at \in {"send", "sleep"}) ~> (http.at \in {"ok", "err"})

\* a call gave up after four failed attempts of three different kinds
GaveUp ==
    /\ http.at = "err"
    /\ [i \in 1..4 |-> http.posts[i].status] = <<500, 0, 404, 500>>
    /\ http.delays = <<1, 2, 4>>


\* the advertisements and events of the model
AllEvents == UNION {ServiceEvents(p) : p \in Nodes}

\* C28: discovery emits a DiscoveredPeer only for a resolved service whose
\* node_id is not the node's own; self, unresolved and removed events emit
\* nothing; the live peer table of a node never holds the node's own id, so
\* no pull-sync round of a node with itself can start.
DiscoveryDropsSelf ==
    /\ \A n \in Nodes, event \in AllEvents :
          Emitted(event, n) # NoPeer =>
             /\ event.type = "ServiceResolved"
             /\ event.info.node_id \notin {n, Absent}
             /\ Emitted(event, n).node_id = event.info.node_id
    /\ \A n \in Nodes : n \notin live[n]
    /\ \A n \in Nodes : ~ENABLED sync_with_peer_ok(n, n)
    /\ \A n \in Nodes : ~ENABLED sync_with_peer_err(n, n)

\* both nodes have discovered each other, and each drops its own resolved
\* advertisement
SelfDropped ==
    /\ live["A"] = {"B"}
    /\ live["B"] = {"A"}
    /\ \E event \in ServiceEvents("A") :
          /\ event.type = "ServiceResolved"
          /\ Emitted(event, "B") # NoPeer
          /\ Emitted(event, "A") = NoPeer


\* the records of published from index i on that were not overwritten, as
\* the messages broadcast_loop makes of them
RECURSIVE NotOverwritten(_)
NotOverwritten(i) ==
    IF i > Len(fanout_log.published) THEN <<>>
    ELSE (IF i \in fanout_log.overwritten THEN <<>>
          ELSE <<ToServerMessage(fanout_log.published[i])>>)
         \o NotOverwritten(i + 1)

\* C29: publishing on the client fan-out never blocks the producer (the
\* handler can always take its step, whatever the channel holds), and a
\* subscriber that fell behind loses the overwritten messages only: once
\* it has nothing left to receive, it has forwarded every other message
\* published since it subscribed, those published after the lag included.
LossyFanout ==
    /\ ENABLED LocalTranscription(Self)
    /\ (ws_broadcast.loop # "off" /\ ws_broadcast.rx = <<>> /\ ~ws_broadcast.lagged)
          => fanout_log.forwarded = NotOverwritten(1)

\* C30: every step that commits a transcription to the store of Self
\* (local, pushed to it, or pulled by it) sends it on the fan-out channel,
\* and what a step sends on the channel it has committed.
CommittedIsPublished ==
    [][ws_broadcast.loop # "off" =>
          LET sent == {fanout_log'.published[i] :
                          i \in Len(fanout_log.published) + 1 .. Len(fanout_log'.published)}
          IN  /\ BagToSet(store'[Self]) \ BagToSet(store[Self]) \subseteq sent
              /\ sent \subseteq BagToSet(store'[Self])]_vars


\* C31: the configured model name maps to a file name by the fixed lookup
\* base.en -> ggml-base.en.bin, small.en -> ggml-small.en-q5_1.bin,
\* tiny.en -> ggml-tiny.en.bin; a name that ends with .bin is returned
\* unchanged; any other name is rejected with an error.
ModelSelection ==
    whisper.at # "config" =>
        LET name == whisper.model_name
        IN  whisper.mapped =
               IF name = base_en THEN OkPath(ggml_base_en_bin)
               ELSE IF name = small_en THEN OkPath(ggml_small_en_q5_1_bin)
               ELSE IF name = tiny_en THEN OkPath(ggml_tiny_en_bin)
               ELSE IF Len(name) >= 4 /\ SubSeq(name, Len(name) - 3, Len(name)) = dot_bin
               THEN OkPath(name)
               ELSE ErrPath


\* the pending utterance was handed to the engine and the accumulator
\* cleared (or, on the branch of the closed channel, dropped with the loop)
EmittedAndCleared ==
    \/ audio_buffer = <<>>
    \/ pc = "done" /\ log # <<>> /\ log[Len(log)].audio = audio_buffer

\* C32: when the flag has gone from true to false with a non-empty
\* accumulator while the utterance buffer runs, and stays false, the
\* utterance is eventually emitted and the accumulator cleared, by the
\* periodic check when no chunk arrives.
StopEdgeLiveness ==
    (~is_recording /\ audio_buffer # <<>> /\ pc # "done")
        ~> (is_recording \/ EmittedAndCleared)

\* the periodic check has detected a stop edge with no chunk waiting, and
\* the utterance is with the engine
TickEmitted ==
    /\ branch = "tick"
    /\ pc = "running"
    /\ ~is_recording
    /\ decoded_rx = <<>>
    /\ audio_rx = <<>>
    /\ log[Len(log)].audio = audio_buffer


\* C33: on close of the PCM channel the utterance buffer emits any pending
\* non-empty accumulator as a final utterance, whatever the value of the
\* flag at that moment, and then exits: when the loop has ended, what the
\* accumulator held is the last utterance handed to the engine.
CloseEmitsPending ==
    (pc = "done" /\ audio_buffer # <<>>) =>
        (log # <<>> /\ log[Len(log)].audio = audio_buffer)


\* C34: a device whose connection, service discovery or subscription failed
\* during a scan tick is not recorded in the connected set, so the next
\* scan tick that sees it attempts the whole setup again.
FailedSetupRetried ==
    /\ []((audio_open /\ scan = "idle" /\ ~connected) => ENABLED try_connect_subscribe)
    /\ [][(\E step \in SetupSteps : try_connect_err(step)) =>
             (~connected' /\ scan' = "idle" /\ audio_open')]_vars

\* a setup failed at subscribe_to_control, and a later tick went through
\* the whole setup: the device is in the connected set with the audio tasks
\* of both ticks
RetriedAfterFailure ==
    /\ connected
    /\ control_task
    /\ audio_task = 2

\* C35: however many scan ticks see the device and whatever setup steps
\* failed on earlier ticks, at most one audio-forwarding task exists for
\* it, so each audio notification is forwarded to the decoder once.
ScanIdempotent ==
    /\ audio_task <= 1
    /\ \A i \in 1..Len(audio_rx), j \in 1..Len(audio_rx) :
          audio_rx[i] = audio_rx[j] => i = j


\* the peers of the attempts of the current tick
Attempted == {sync_loop.attempts[i].peer : i \in 1..Len(sync_loop.attempts)}

\* the loop of a tick: the peers attempted and those still to come are the
\* table, no peer is attempted twice, every remaining attempt is enabled
\* whatever the earlier ones returned, the tick can end, the next can start
SyncTickState ==
    /\ sync_loop.at = "tick" =>
          /\ Attempted \cup sync_loop.todo = live[Self]
          /\ Attempted \cap sync_loop.todo = {}
          /\ \A i \in 1..Len(sync_loop.attempts), j \in 1..Len(sync_loop.attempts) :
                sync_loop.attempts[i].peer = sync_loop.attempts[j].peer => i = j
          /\ \A p \in sync_loop.todo : ENABLED sync_tick_peer(p)
          /\ sync_loop.todo = {} => ENABLED sync_tick_end
    /\ (sync_loop.at = "wait" /\ sync_loop.adding = {}) => ENABLED sync_tick_begin

\* C36: on every sync tick the peer manager attempts one pull-sync with
\* each peer of the live peer table: during a tick the peers attempted and
\* those still to come are the table, no peer is attempted twice, an
\* attempt that failed leaves the remaining attempts enabled, the tick
\* ends, the next tick can start, and it visits every peer of the table,
\* those that failed before like the others (no backoff).
SyncTick ==
    /\ []SyncTickState
    /\ [][sync_tick_begin => sync_loop'.todo = live[Self]]_vars

\* in one tick the attempt with B has failed and the attempt with C was
\* made after it
FailedThenNext ==
    /\ sync_loop.at = "tick"
    /\ Len(sync_loop.attempts) = 2
    /\ sync_loop.attempts[1] = [peer |-> "B", address |-> "B", ok |-> FALSE]
    /\ sync_loop.attempts[2].peer = "C"


\* during a tick the table is the one the tick started with, and every
\* attempt made used the entry of its peer
TableHeld ==
    sync_loop.at = "tick" =>
        /\ DOMAIN sync_loop.table = live[Self]
        /\ \A i \in 1..Len(sync_loop.attempts) :
              sync_loop.attempts[i].address = sync_loop.table[sync_loop.attempts[i].peer]

\* C40: a sync tick holds the read lock of the peer table for its whole
\* duration: no step taken during a tick changes the table; a call of
\* add_peer that finds the lock held waits, is granted the lock once the
\* tick has ended (it always is), and inserts its entry under the node id,
\* replacing the old one; the next tick visits exactly the entries of the
\* table as they are then.
PeerTableLock ==
    /\ []TableHeld
    /\ [][sync_loop.at = "tick" =>
             (sync_loop'.table = sync_loop.table /\ live' = live)]_vars
    /\ [][add_peer_granted =>
             /\ sync_loop.at = "wait"
             /\ \A peer \in sync_loop.adding :
                   sync_loop'.table[peer.node_id] = peer.address
             /\ sync_loop'.adding = {}]_vars
    /\ [][sync_tick_begin => sync_loop'.todo = DOMAIN sync_loop'.table]_vars
    /\ (sync_loop.adding # {}) ~> (sync_loop.adding = {})

\* an add_peer for B at its new address waited for a tick to end, and the
\* tick after it has called B at the new address
OverwrittenUsed ==
    /\ sync_loop.at = "tick"
    /\ sync_loop.granted = {[node_id |-> "B", address |-> "moved", grpc_port |-> 50051]}
    /\ \E i \in 1..Len(sync_loop.attempts) :
          sync_loop.attempts[i] = [peer |-> "B", address |-> "moved", ok |-> TRUE]


\* C37: cursor coverage: for every node b and every peer a for which b
\* stores a cursor, the store of b holds every record of the store of a
\* whose timestamp is at most the cursor.
CursorCoverage ==
    \A b \in Nodes : \A row \in peers[b] :
        \A t \in BagToSet(store[row.node_id]) :
            t.timestamp <= row.last_sync_timestamp =>
                \E mine \in BagToSet(store[b]) : mine.id = t.id


\* the fields of a record that replication copies
Content(t) == <<t.id, t.timestamp, t.text, t.source_node, t.memo_device_id>>

\* C38: replication preserves record content: any two copies of one id,
\* held by any nodes, have the same timestamp, text, source_node and device
\* id (and the ones the producer gave the record); only synced may differ.
ContentPreserved ==
    \A a \in Nodes, b \in Nodes :
        \A x \in Rows(a), y \in Rows(b) :
            x.id = y.id =>
                /\ Content(x) = Content(y)
                /\ \E k \in created : Content(k) = Content(x)

\* the three nodes hold a copy of one record of A: A's own, unsynced, B's
\* pulled from A, and C's, which C got before any round of C with A
ThreeCopies ==
    \E x \in Rows("A"), y \in Rows("B"), z \in Rows("C") :
        /\ x.id = y.id /\ y.id = z.id
        /\ ~x.synced /\ y.synced /\ z.synced
        /\ get_peer(peers["C"], "A") = {}


\* C39: no audio loss inside an utterance: every chunk the decoder task
\* has produced (decoded while is_recording was true) is appended to the
\* accumulator when the transcriber receives it, a chunk leaves the
\* accumulator only as part of an utterance handed to the engine, and no
\* chunk is in two utterances or twice in one.
NoAudioLoss ==
    /\ [][recv_chunk => recv(decoded_rx).msg \in Chunks(audio_buffer')]_vars
    /\ [][Chunks(audio_buffer) \ Chunks(audio_buffer')
            \subseteq Chunks(Concat([i \in 1..Len(log') |-> log'[i].audio]))]_vars
    /\ [](\A i \in 1..Len(Concat(Utterances)), j \in 1..Len(Concat(Utterances)) :
            Concat(Utterances)[i] = Concat(Utterances)[j] => i = j)

=============================================================================
